---- MODULE Spec2Model ----
(***************************************************************************)
(* A model of the ts-json-rpc library: the message model and factory of   *)
(* packages/core, the client correlator of packages/client and the        *)
(* dispatcher of packages/server.                                          *)
(*                                                                         *)
(* JavaScript values are pairs <<tag, payload>>:                           *)
(*   <<"num", n>>, <<"str", s>>, <<"bool", b>>, <<"null", 0>>,             *)
(*   <<"undef", 0>>, <<"fn", name>> for a function,                        *)
(*   <<"text", cs>> for a string whose characters are read (a JSON text),  *)
(*   with cs the sequence of its characters,                               *)
(*   <<"obj", r>> with r a record whose DOMAIN is the object's key set,    *)
(*   <<"arr", s>> with s the sequence of the array's elements.             *)
(* A key that is absent from an object is absent from the record, so that  *)
(* `'k' in obj` and `obj.k === undefined` stay different questions.        *)
(***************************************************************************)
EXTENDS Integers, Sequences, FiniteSets, TLC

VARIABLES
    nextId,           \* client: let nextId
    pendingRequests,  \* client: the Map id -> {resolve, reject}; here id -> index of the call's promise
    promises,         \* the promise returned by the n-th call: [state, value]
    transports,       \* the n-th call's transport invocation: "inflight", "catching" (fulfilled,
                      \* the then-callback threw, the catch-callback is queued), "fulfilled",
                      \* "rejected", "threw"
    sent,             \* the requests handed to the transport, in order
    notifications,    \* client: the notify invocations, in order: [sent, transport, failure, outcome]
    console,          \* client: what console.warn was called with, in order
    strictOption,     \* server: options.strictMethodHandling as given at creation
    pc,               \* server: where the dispatch is: "idle", "awaiting" (suspended at the await
                      \* of the handler call), "resuming" (handleSingleRequest of an element has
                      \* returned and its caller is suspended at the await of it), "done"
    rawJsonPayload,   \* server: the payload of the dispatch
    context,          \* server: the context of the dispatch
    parsedPayload,    \* server: let parsedPayload
    index,            \* server: the position of the element being processed
    results,          \* server: the per-element results so far (const response), null included
    responses,        \* server: const responses, the responses collected so far
    outcome,          \* server: what the promise of handleJsonRpcRequest settled with
    invocations,      \* server: the handler invocations of the dispatch, in order, and how each settled
    logger,           \* server: the logger calls of the dispatch, in order
    factoryCall,      \* core: the last call of a factory function: [fn, args, value]
    classified,       \* core: the value last handed to the classification predicates
    verdicts,         \* core: what each of the six predicates completed with on it
    concurrent,       \* server: the variables of a second call of handleJsonRpcRequest, made while the first is under way or after it
    dispatched,       \* server: the number of calls of handleJsonRpcRequest made after the first has completed
    dispatches        \* end to end: the variables of the call of handleJsonRpcRequest that each call of the client made through its transport

\* the variables of the client's calls
callVars == <<nextId, pendingRequests, promises, transports, sent>>

\* the variables of the client's notifications
notifyVars == <<notifications, console>>

\* the variables of the server
serverVars == <<strictOption, pc, rawJsonPayload, context, parsedPayload, index,
                results, responses, outcome, invocations, logger>>

\* the variables of the message model and factory
coreVars == <<factoryCall, classified, verdicts>>

\* the variables of the further calls of handleJsonRpcRequest
concurrencyVars == <<concurrent, dispatched, dispatches>>

vars == <<callVars, notifyVars, serverVars, coreVars, concurrencyVars>>

----------------------------------------------------------------------------
(* Bounds of the model *)

\* the number of calls one client instance makes
MaxCalls == 2

\* the number of notifications one client instance sends
MaxNotifies == 1

----------------------------------------------------------------------------
(* JavaScript values *)

Num(n) == <<"num", n>>
Str(s) == <<"str", s>>
Obj(r) == <<"obj", r>>
Arr(s) == <<"arr", s>>
Bool(b) == <<"bool", b>>
Fn(name) == <<"fn", name>>
Text(cs) == <<"text", cs>>
Null == <<"null", 0>>
Undef == <<"undef", 0>>

\* typeof v === 'object' && v !== null, for the values the model holds
\* (an array is an object too)
IsObject(v) == v[1] \in {"obj", "arr"}
IsString(v) == v[1] = "str"
IsNumber(v) == v[1] = "num"
IsArray(v) == v[1] = "arr"

\* typeof v === 'string' for a payload: the strings handed to the dispatcher are
\* texts
IsText(v) == v[1] = "text"

\* the truthiness of the values the model holds (no empty string, no 0, no NaN
\* among them)
Truthy(v) == v \notin {Null, Undef, Bool(FALSE)}

\* 'k' in obj, for obj an object (an array has none of the keys asked for)
HasKey(obj, k) == obj[1] = "obj" /\ k \in DOMAIN obj[2]

\* obj.k, for obj neither null nor undefined: undefined when the key is absent
\* or obj is a primitive
Get(obj, k) == IF HasKey(obj, k) THEN obj[2][k] ELSE Undef

\* reading a property of null or undefined throws a TypeError
ThrowsOnRead(v) == v \in {Null, Undef}

\* the TypeError thrown by reading a property of null or undefined
TypeErrorValue == Obj([name |-> Str("TypeError")])

----------------------------------------------------------------------------
(* packages/core: factory and classification predicates *)

\* a request built without its id
createJsonRpcRequestNoId(method, id, params) ==
    IF params # Undef
    THEN Obj([jsonrpc |-> Str("2.0"), method |-> method, params |-> params])
    ELSE Obj([jsonrpc |-> Str("2.0"), method |-> method])

createJsonRpcRequest(method, id, params) ==
    IF params # Undef
    THEN Obj([jsonrpc |-> Str("2.0"), method |-> method, id |-> id, params |-> params])
    ELSE Obj([jsonrpc |-> Str("2.0"), method |-> method, id |-> id])

\* a notification whose params key is set by `if (params)`
createJsonRpcNotificationTruthy(method, params) ==
    IF Truthy(params)
    THEN Obj([jsonrpc |-> Str("2.0"), method |-> method, params |-> params])
    ELSE Obj([jsonrpc |-> Str("2.0"), method |-> method])

createJsonRpcNotification(method, params) ==
    IF params # Undef
    THEN Obj([jsonrpc |-> Str("2.0"), method |-> method, params |-> params])
    ELSE Obj([jsonrpc |-> Str("2.0"), method |-> method])

createJsonRpcSuccessResponse(id, result) ==
    Obj([jsonrpc |-> Str("2.0"), id |-> id, result |-> result])

createJsonRpcErrorResponse(id, error) ==
    Obj([jsonrpc |-> Str("2.0"), id |-> id, error |-> error])

createJsonRpcError(code, message, data) ==
    IF data # Undef
    THEN Obj([code |-> code, message |-> message, data |-> data])
    ELSE Obj([code |-> code, message |-> message])

JSONRPC_ERROR_CODES ==
    [PARSE_ERROR |-> -32700, INVALID_REQUEST |-> -32600, METHOD_NOT_FOUND |-> -32601,
     INVALID_PARAMS |-> -32602, INTERNAL_ERROR |-> -32603]

\* a table that gives every code the same message
JSONRPC_ERROR_MESSAGES_SAME(errorCode) == "Internal error"

JSONRPC_ERROR_MESSAGES(errorCode) ==
    CASE errorCode = -32700 -> "Parse error"
      [] errorCode = -32600 -> "Invalid Request"
      [] errorCode = -32601 -> "Method not found"
      [] errorCode = -32602 -> "Invalid params"
      [] errorCode = -32603 -> "Internal error"

createStandardJsonRpcError(code, data) ==
    LET errorCode == JSONRPC_ERROR_CODES[code]
        message == JSONRPC_ERROR_MESSAGES(errorCode)
    IN  createJsonRpcError(Num(errorCode), Str(message), data)

isJSONRPCRequest(obj) ==
    /\ IsObject(obj)
    /\ HasKey(obj, "jsonrpc")
    /\ Get(obj, "jsonrpc") = Str("2.0")
    /\ HasKey(obj, "method")
    /\ IsString(Get(obj, "method"))
    /\ HasKey(obj, "id")
    /\ (IsString(Get(obj, "id")) \/ IsNumber(Get(obj, "id")))

\* a notification test that takes an id that is null or undefined for no id
\* (obj.id == null instead of !('id' in obj))
isJSONRPCNotificationLooseId(obj) ==
    /\ IsObject(obj)
    /\ HasKey(obj, "jsonrpc")
    /\ Get(obj, "jsonrpc") = Str("2.0")
    /\ HasKey(obj, "method")
    /\ IsString(Get(obj, "method"))
    /\ Get(obj, "id") \in {Null, Undef}

isJSONRPCNotification(obj) ==
    /\ IsObject(obj)
    /\ HasKey(obj, "jsonrpc")
    /\ Get(obj, "jsonrpc") = Str("2.0")
    /\ HasKey(obj, "method")
    /\ IsString(Get(obj, "method"))
    /\ ~HasKey(obj, "id")

isJSONRPCSuccessResponse(obj) ==
    /\ IsObject(obj)
    /\ HasKey(obj, "jsonrpc")
    /\ Get(obj, "jsonrpc") = Str("2.0")
    /\ HasKey(obj, "result")
    /\ HasKey(obj, "id")
    /\ (IsString(Get(obj, "id")) \/ IsNumber(Get(obj, "id")))
    /\ ~HasKey(obj, "error")

isJSONRPCErrorResponse(obj) ==
    /\ IsObject(obj)
    /\ HasKey(obj, "jsonrpc")
    /\ Get(obj, "jsonrpc") = Str("2.0")
    /\ HasKey(obj, "error")
    /\ IsObject(Get(obj, "error"))
    /\ HasKey(Get(obj, "error"), "code")
    /\ IsNumber(Get(Get(obj, "error"), "code"))
    /\ HasKey(Get(obj, "error"), "message")
    /\ IsString(Get(Get(obj, "error"), "message"))
    /\ HasKey(obj, "id")
    /\ (Get(obj, "id") = Null \/ IsString(Get(obj, "id")) \/ IsNumber(Get(obj, "id")))
    /\ ~HasKey(obj, "result")

isJSONRPCResponse(obj) == isJSONRPCSuccessResponse(obj) \/ isJSONRPCErrorResponse(obj)

isJSONRPCError(obj) ==
    /\ IsObject(obj)
    /\ HasKey(obj, "code")
    /\ IsNumber(Get(obj, "code"))
    /\ HasKey(obj, "message")
    /\ IsString(Get(obj, "message"))

----------------------------------------------------------------------------
(* packages/client: the correlator *)

\* A promise that is still pending
PendingPromise == [state |-> "pending", value |-> Undef]

\* The resolve and reject functions of a promise: the first settlement wins,
\* any later one is ignored.  ps: the promises, c: the index, state: "fulfilled"
\* or "rejected".
Settle(ps, c, state, value) ==
    IF ps[c].state = "pending"
    THEN [ps EXCEPT ![c] = [state |-> state, value |-> value]]
    ELSE ps

\* pendingRequests.delete(id)
MapDelete(m, id) == [k \in DOMAIN m \ {id} |-> m[k]]

\* pendingRequests.set(id, v)
MapSet(m, id, v) == [k \in DOMAIN m \cup {id} |-> IF k = id THEN v ELSE m[k]]

\* an Error that carries the message and the code and forgets the data
ErrorFromNoData(errorObject) ==
    Obj([name |-> Str("Error"),
         message |-> Get(errorObject, "message"),
         code |-> Get(errorObject, "code"),
         data |-> Undef])

\* new Error(message) with code and data assigned
ErrorFrom(errorObject) ==
    Obj([name |-> Str("Error"),
         message |-> Get(errorObject, "message"),
         code |-> Get(errorObject, "code"),
         data |-> Get(errorObject, "data")])

\* a lookup that compares ids loosely: the string "1" finds the entry of 1
MapGetLoose(m, id) ==
    LET key == IF id = Str("1") THEN Num(1) ELSE id IN
    IF key \in DOMAIN m THEN m[key] ELSE 0

\* pendingRequests.get(id): the index of the promise whose resolve and reject
\* the entry holds, 0 for undefined.  Keys are compared by value and type
\* (SameValueZero), so "1" is not 1.
MapGet(m, id) == IF id \in DOMAIN m THEN m[id] ELSE 0

\* resolving with the response itself instead of its result
resolveWholeResponse(response) == response

\* pending.resolve(response.result): what the promise is fulfilled with
resolveArgument(response) == Get(response, "result")

\* The closure's mutable state as one value: st.nextId the counter, st.pending
\* the Map, st.promises the promises of the calls; st.threw says that the
\* function applied last threw a TypeError instead of returning.
Returned(st) == [st EXCEPT !.threw = FALSE]
Threw(st) == [st EXCEPT !.threw = TRUE]

\* a correlator that does not check whether the entry is still there: with
\* the entry gone, pending.resolve or pending.reject is read from undefined,
\* which throws a TypeError
handleSingleResponseUnguarded(st, response) ==
    IF ThrowsOnRead(response) THEN Threw(st)
    ELSE LET id == Get(response, "id") IN
         IF id = Null THEN Returned(st)
         ELSE IF MapGet(st.pending, id) = 0
         THEN IF isJSONRPCSuccessResponse(response) \/ isJSONRPCErrorResponse(response)
              THEN Threw(st)
              ELSE Returned(st)
         ELSE LET c == MapGet(st.pending, id)
                  removed == [st EXCEPT !.pending = MapDelete(st.pending, id),
                                        !.threw = FALSE]
              IN  IF isJSONRPCSuccessResponse(response)
                  THEN [removed EXCEPT !.promises =
                           Settle(st.promises, c, "fulfilled", resolveArgument(response))]
                  ELSE IF isJSONRPCErrorResponse(response)
                  THEN [removed EXCEPT !.promises =
                           Settle(st.promises, c, "rejected", ErrorFrom(Get(response, "error")))]
                  ELSE removed

\* handleSingleResponse(response): no id or no entry under it, nothing is done
\* (lines 209-217); otherwise the entry is removed and the call completed
handleSingleResponse(st, response) ==
    IF ThrowsOnRead(response) THEN Threw(st)
    ELSE LET id == Get(response, "id") IN
         IF id = Null THEN Returned(st)
         ELSE IF MapGet(st.pending, id) = 0 THEN Returned(st)
         ELSE LET c == MapGet(st.pending, id)
                  removed == [st EXCEPT !.pending = MapDelete(st.pending, id),
                                        !.threw = FALSE]
              IN  IF isJSONRPCSuccessResponse(response)
                  THEN [removed EXCEPT !.promises =
                           Settle(st.promises, c, "fulfilled", resolveArgument(response))]
                  ELSE IF isJSONRPCErrorResponse(response)
                  THEN [removed EXCEPT !.promises =
                           Settle(st.promises, c, "rejected", ErrorFrom(Get(response, "error")))]
                  ELSE removed

\* for (const singleResponse of response) handleSingleResponse(singleResponse):
\* a throw ends the loop, what the earlier elements did stays done
RECURSIVE handleEach(_, _, _)
handleEach(st, elems, i) ==
    IF i > Len(elems) THEN Returned(st)
    ELSE LET r == handleSingleResponse(st, elems[i]) IN
         IF r.threw THEN r ELSE handleEach(r, elems, i + 1)

\* a single response taken to answer the request it came back for, whatever id
\* it bears
handleResponseToCarrier(st, response, requestId) ==
    IF IsArray(response)
    THEN handleEach(st, response[2], 1)
    ELSE IF response[1] = "obj"
    THEN handleSingleResponse(st,
             Obj([k \in DOMAIN response[2] \cup {"id"} |->
                     IF k = "id" THEN requestId ELSE response[2][k]]))
    ELSE handleSingleResponse(st, response)

\* requestId is a parameter the code never reads
handleResponse(st, response, requestId) ==
    IF IsArray(response)
    THEN handleEach(st, response[2], 1)
    ELSE handleSingleResponse(st, response)

\* a catch-callback that rejects with a new Error wrapped around the failure
catchHandlerWrapping(st, id, error) ==
    IF MapGet(st.pending, id) # 0
    THEN [st EXCEPT !.pending = MapDelete(st.pending, id),
                    !.promises = Settle(st.promises, MapGet(st.pending, id), "rejected",
                                        Obj([name |-> Str("Error"), cause |-> error])),
                    !.threw = FALSE]
    ELSE Returned(st)

\* .catch((error) => { const pending = pendingRequests.get(id); if (pending) ... })
catchHandler(st, id, error) ==
    IF MapGet(st.pending, id) # 0
    THEN [st EXCEPT !.pending = MapDelete(st.pending, id),
                    !.promises = Settle(st.promises, MapGet(st.pending, id), "rejected", error),
                    !.threw = FALSE]
    ELSE Returned(st)

\* .then((response) => { handleResponse(response, id); }): the then-callback.
\* When it throws (threw), the promise that .then returned is rejected with the
\* TypeError and the catch-callback is queued as a reaction of its own: it runs
\* in a later microtask, after the callbacks that were queued before it.
thenHandler(st, id, response) == handleResponse(st, response, id)

----------------------------------------------------------------------------
(* What the environment supplies *)

Methods == {Str("m")}
ParamsValues == {Obj([value |-> Num(7)])}
TransportErrors == {Obj([name |-> Str("Error"), message |-> Str("Network error")]),
                    Str("timeout")}
ResultValues == {Str("r1"), Str("r2")}
ErrorObjects == {createJsonRpcError(Num(-32001), Str("custom"), Str("d")),
                 createJsonRpcError(Num(-32602), Str("Invalid params"), Undef)}

\* the ids a response bears: those of the calls, the string "1", null
ResponseIds == {Num(i) : i \in 1..MaxCalls} \cup {Str("1"), Null}

\* responses as the factory builds them
WellFormedResponses ==
    {createJsonRpcSuccessResponse(id, r) : id \in ResponseIds \ {Null}, r \in ResultValues}
    \cup {createJsonRpcErrorResponse(id, e) : id \in ResponseIds, e \in ErrorObjects}

\* objects that are neither a SuccessResponse nor an ErrorResponse: neither
\* result nor error, both of them, or no id
MalformedResponses ==
    {Obj([jsonrpc |-> Str("2.0"), id |-> id]) : id \in ResponseIds}
    \cup {Obj([jsonrpc |-> Str("2.0"), id |-> id, result |-> Str("r1"),
               error |-> createJsonRpcError(Num(-32001), Str("custom"), Str("d"))])
            : id \in ResponseIds}
    \cup {Obj([jsonrpc |-> Str("2.0"), result |-> Str("r1")])}

\* the elements of the arrays a transport fulfils with: a success for each id,
\* an error for the first, and null
BatchElements ==
    {createJsonRpcSuccessResponse(Num(i), Str("r2")) : i \in 1..MaxCalls}
    \cup {createJsonRpcErrorResponse(Num(1),
              createJsonRpcError(Num(-32001), Str("custom"), Str("d"))), Null}

\* what a transport invocation fulfils with
Fulfilments ==
    WellFormedResponses \cup MalformedResponses \cup {Null, Undef, Num(42)}
    \cup {Arr(<<>>)}
    \cup {Arr(<<a, b>>) : a \in BatchElements, b \in BatchElements}

----------------------------------------------------------------------------
(* The client as a state machine *)

\* createJsonRpcClient(transport): the counter and the registry of the calls
InitCalls ==
    /\ nextId = 1
    /\ pendingRequests = <<>>
    /\ promises = <<>>
    /\ transports = <<>>
    /\ sent = <<>>

\* no notification sent, nothing written to the console
InitNotify ==
    /\ notifications = <<>>
    /\ console = <<>>

\* createJsonRpcServer(methods, options) with options.strictMethodHandling as
\* given, and no dispatch begun
InitServer(option) ==
    /\ strictOption = option
    /\ pc = "idle"
    /\ rawJsonPayload = Undef
    /\ context = Undef
    /\ parsedPayload = Undef
    /\ index = 0
    /\ results = <<>>
    /\ responses = <<>>
    /\ outcome = PendingPromise
    /\ invocations = <<>>
    /\ logger = <<>>

\* no factory function called, nothing handed to the predicates
InitCore ==
    /\ factoryCall = [fn |-> "none", args |-> <<>>, value |-> Undef]
    /\ classified = Undef
    /\ verdicts = <<>>

\* the variables of a call of handleJsonRpcRequest that has not been made
IdleServer ==
    [pc |-> "idle", rawJsonPayload |-> Undef, context |-> Undef, parsedPayload |-> Undef,
     index |-> 0, results |-> <<>>, responses |-> <<>>, outcome |-> PendingPromise,
     invocations |-> <<>>, logger |-> <<>>]

\* no further call of handleJsonRpcRequest made
InitConcurrency ==
    /\ concurrent = IdleServer
    /\ dispatched = 0
    /\ dispatches = <<>>

Init == InitCalls /\ InitNotify /\ InitServer(Undef) /\ InitCore /\ InitConcurrency

\* an id taken from the size of the registry instead of the counter
generateIdFromSize == Cardinality(DOMAIN pendingRequests) + 1

\* generateId(): return nextId++ (the increment is in the actions that call it)
generateId == nextId

\* the client's state now
Client == [nextId |-> nextId, pending |-> pendingRequests, promises |-> promises,
           threw |-> FALSE]

\* the id call c was sent with
IdOf(c) == Get(sent[c], "id")

\* the client's state after the then-callback of call c has run with response
AfterFulfil(c, response) == thenHandler(Client, IdOf(c), response)

\* the client's state after the catch-callback of call c has run with the
\* TypeError its then-callback threw
AfterThrow(c) == catchHandler(Client, IdOf(c), TypeErrorValue)

\* the client's state after the transport invocation of call c rejects with error
AfterReject(c, error) == catchHandler(Client, IdOf(c), error)

\* call(method, params), the transport returning its promise
Call(method, params) ==
    /\ nextId <= MaxCalls
    /\ LET id == generateId IN
       /\ nextId' = nextId + 1
       /\ sent' = Append(sent, createJsonRpcRequest(method, Num(id), params))
       /\ promises' = Append(promises, PendingPromise)
       /\ pendingRequests' = MapSet(pendingRequests, Num(id), Len(promises) + 1)
       /\ transports' = Append(transports, "inflight")
    /\ UNCHANGED <<notifyVars, serverVars, coreVars, concurrencyVars>>

\* call(method, params), the transport throwing instead of returning a promise:
\* the promise executor throws after pendingRequests.set, which rejects the promise
CallTransportThrows(method, params, error) ==
    /\ nextId <= MaxCalls
    /\ LET id == generateId
           c == Len(promises) + 1
       IN
       /\ nextId' = nextId + 1
       /\ sent' = Append(sent, createJsonRpcRequest(method, Num(id), params))
       /\ promises' = Settle(Append(promises, PendingPromise), c, "rejected", error)
       /\ pendingRequests' = MapSet(pendingRequests, Num(id), c)
       /\ transports' = Append(transports, "threw")
    /\ UNCHANGED <<notifyVars, serverVars, coreVars, concurrencyVars>>

\* the transport invocation of call c fulfils with response: the then-callback
\* runs, and when it throws the catch-callback is queued
TransportFulfils(c, response) ==
    /\ c \in 1..Len(transports)
    /\ transports[c] = "inflight"
    /\ LET st == AfterFulfil(c, response) IN
       /\ nextId' = st.nextId
       /\ pendingRequests' = st.pending
       /\ promises' = st.promises
       /\ transports' = [transports EXCEPT ![c] = IF st.threw THEN "catching" ELSE "fulfilled"]
    /\ UNCHANGED <<sent, notifyVars, serverVars, coreVars, concurrencyVars>>

\* the catch-callback of call c runs with the TypeError its then-callback threw;
\* the callbacks of other calls may have run since
ThenThrewCatchRuns(c) ==
    /\ c \in 1..Len(transports)
    /\ transports[c] = "catching"
    /\ LET st == AfterThrow(c) IN
       /\ nextId' = st.nextId
       /\ pendingRequests' = st.pending
       /\ promises' = st.promises
    /\ transports' = [transports EXCEPT ![c] = "fulfilled"]
    /\ UNCHANGED <<sent, notifyVars, serverVars, coreVars, concurrencyVars>>

\* the transport invocation of call c rejects with error: the catch-callback runs
TransportRejects(c, error) ==
    /\ c \in 1..Len(transports)
    /\ transports[c] = "inflight"
    /\ LET st == AfterReject(c, error) IN
       /\ nextId' = st.nextId
       /\ pendingRequests' = st.pending
       /\ promises' = st.promises
    /\ transports' = [transports EXCEPT ![c] = "rejected"]
    /\ UNCHANGED <<sent, notifyVars, serverVars, coreVars, concurrencyVars>>

Next ==
    \/ \E m \in Methods, p \in ParamsValues : Call(m, p)
    \/ \E m \in Methods, p \in ParamsValues, e \in TransportErrors : CallTransportThrows(m, p, e)
    \/ \E c \in 1..MaxCalls, r \in Fulfilments : TransportFulfils(c, r)
    \/ \E c \in 1..MaxCalls : ThenThrewCatchRuns(c)
    \/ \E c \in 1..MaxCalls, e \in TransportErrors : TransportRejects(c, e)

Spec == Init /\ [][Next]_vars

----------------------------------------------------------------------------
(* The client's notifications *)

\* what notify is called with
NotifyParams == {Obj([value |-> Num(7)]), Undef}

\* what the transport invocations fulfil with where the notifications are
\* looked at: for each call a success and an error that bear its id
NotifyFulfilments ==
    {createJsonRpcSuccessResponse(Num(i), Str("r1")) : i \in 1..MaxCalls}
    \cup {createJsonRpcErrorResponse(Num(i),
               createJsonRpcError(Num(-32602), Str("Invalid params"), Undef))
             : i \in 1..MaxCalls}

\* the message console.warn is called with
NotifyWarning == Str("JSON-RPC notification transport error:")

\* notify(method, params), the transport returning its promise: the catch-callback
\* is attached and notify returns
Notify(method, params) ==
    /\ Len(notifications) < MaxNotifies
    /\ notifications' = Append(notifications,
           [sent |-> createJsonRpcNotification(method, params),
            transport |-> "inflight", failure |-> Undef, outcome |-> "returned"])
    /\ UNCHANGED <<console, callVars, serverVars, coreVars, concurrencyVars>>

\* notify(method, params), the transport throwing instead of returning a promise:
\* transport(notification) is not inside a try, so .catch is never reached and
\* the thrown value leaves notify
NotifyTransportThrows(method, params, error) ==
    /\ Len(notifications) < MaxNotifies
    /\ notifications' = Append(notifications,
           [sent |-> createJsonRpcNotification(method, params),
            transport |-> "threw", failure |-> error, outcome |-> "threw"])
    /\ UNCHANGED <<console, callVars, serverVars, coreVars, concurrencyVars>>

\* a notify that hands what its transport invocation fulfils with to the
\* routing of responses, as call does
NotifyTransportFulfilsRouting(n, response) ==
    /\ n \in 1..Len(notifications)
    /\ notifications[n].transport = "inflight"
    /\ notifications' = [notifications EXCEPT ![n].transport = "fulfilled"]
    /\ LET st == handleSingleResponse(Client, response) IN
       /\ nextId' = st.nextId
       /\ pendingRequests' = st.pending
       /\ promises' = st.promises
    /\ UNCHANGED <<console, transports, sent, serverVars, coreVars, concurrencyVars>>

\* the transport invocation of notification n fulfils: no callback is attached
\* to the fulfilment, whatever it fulfils with
NotifyTransportFulfils(n, response) ==
    /\ n \in 1..Len(notifications)
    /\ notifications[n].transport = "inflight"
    /\ notifications' = [notifications EXCEPT ![n].transport = "fulfilled"]
    /\ UNCHANGED <<console, callVars, serverVars, coreVars, concurrencyVars>>

\* the transport invocation of notification n rejects with error: the
\* catch-callback calls console.warn
NotifyTransportRejects(n, error) ==
    /\ n \in 1..Len(notifications)
    /\ notifications[n].transport = "inflight"
    /\ notifications' = [notifications EXCEPT ![n].transport = "rejected",
                                              ![n].failure = error]
    /\ console' = Append(console, <<NotifyWarning, error>>)
    /\ UNCHANGED <<callVars, serverVars, coreVars, concurrencyVars>>

\* the client with both of its operations
NotifyNext ==
    \/ \E m \in Methods, p \in ParamsValues : Call(m, p)
    \/ \E c \in 1..MaxCalls, r \in NotifyFulfilments : TransportFulfils(c, r)
    \/ \E m \in Methods, p \in NotifyParams : Notify(m, p)
    \/ \E m \in Methods, p \in NotifyParams, e \in TransportErrors :
           NotifyTransportThrows(m, p, e)
    \/ \E n \in 1..MaxNotifies, r \in NotifyFulfilments : NotifyTransportFulfils(n, r)
    \/ \E n \in 1..MaxNotifies, e \in TransportErrors : NotifyTransportRejects(n, e)

NotifySpec == Init /\ [][NotifyNext]_vars

----------------------------------------------------------------------------
(* JSON.parse *)

\* JSON.parse(text) over the characters of the text, for the JSON grammar without
\* escapes in strings and without fractions and exponents in numbers (no text
\* of the model has a backslash, a U+0000, or a "." or an "e" after a digit).
\* The result says whether the text parsed (ok), what to (value) and where the
\* parse stopped (next); ok = FALSE stands for the SyntaxError thrown.
ParseFailure == [ok |-> FALSE, value |-> Undef, next |-> 0]
Parsed(v, i) == [ok |-> TRUE, value |-> v, next |-> i]

DigitChars == {"0", "1", "2", "3", "4", "5", "6", "7", "8", "9"}
DigitValue(c) ==
    CASE c = "0" -> 0 [] c = "1" -> 1 [] c = "2" -> 2 [] c = "3" -> 3 [] c = "4" -> 4
      [] c = "5" -> 5 [] c = "6" -> 6 [] c = "7" -> 7 [] c = "8" -> 8 [] c = "9" -> 9

\* the characters JSON.parse skips between tokens: space, tab, line feed and
\* carriage return
WhitespaceChars == {" ", "\t", "\n", "\r"}

\* the control characters U+0001..U+001F, which a string may not hold unescaped
ControlChars ==
    {"", "", "", "", "", "", "", "",
     "\t", "\n", "", "\f", "\r", "", "", "",
     "", "", "", "", "", "", "", "",
     "", "", "", "", "", "", ""}

At(cs, i) == IF i \in 1..Len(cs) THEN cs[i] ELSE "EOF"

RECURSIVE SkipWs(_, _)
SkipWs(cs, i) == IF At(cs, i) \in WhitespaceChars THEN SkipWs(cs, i + 1) ELSE i

RECURSIVE ParseStringAt(_, _, _)
ParseStringAt(cs, i, acc) ==
    IF At(cs, i) = "EOF" \/ At(cs, i) = "\\" \/ At(cs, i) \in ControlChars THEN ParseFailure
    ELSE IF At(cs, i) = "\"" THEN Parsed(Str(acc), i + 1)
    ELSE ParseStringAt(cs, i + 1, acc \o cs[i])

\* Numbers are doubles.  A whole number is held as an integer while it has at
\* most nine digits, and beyond that as the sequence of the decimal digits of
\* the double nearest to it (most significant digit first), or "Infinity".

\* the integer a sequence of at most nine digits denotes
RECURSIVE IntOf(_)
IntOf(ds) ==
    IF ds = <<>> THEN 0 ELSE 10 * IntOf(SubSeq(ds, 1, Len(ds) - 1)) + ds[Len(ds)]

\* ds divided by two, rounded down: the carry into a digit is the parity of
\* the digit before it (the sequence is empty for zero)
Halve(ds) ==
    LET q == [i \in 1..Len(ds) |->
                 (10 * (IF i > 1 THEN ds[i - 1] % 2 ELSE 0) + ds[i]) \div 2]
    IN  IF q[1] = 0 THEN Tail(q) ELSE <<>> \o q

\* ds times two: a digit carries into the one before it when it is 5 or more
Double(ds) ==
    LET d == [i \in 1..Len(ds) |->
                 (2 * ds[i] + (IF i < Len(ds) /\ ds[i + 1] >= 5 THEN 1 ELSE 0)) % 10]
    IN  IF ds[1] >= 5 THEN <<1>> \o d ELSE <<>> \o d

\* ds divided by 2^e, rounded down
RECURSIVE ShiftRight(_, _)
ShiftRight(ds, e) ==
    IF Len(ds) = 0 \/ e = 0 THEN ds
    ELSE IF e = 1 THEN Halve(ds)
    ELSE ShiftRight(ShiftRight(ds, e \div 2), e - e \div 2)

\* ds times 2^e
RECURSIVE ShiftLeft(_, _)
ShiftLeft(ds, e) ==
    IF Len(ds) = 0 \/ e = 0 THEN ds
    ELSE IF e = 1 THEN Double(ds)
    ELSE ShiftLeft(ShiftLeft(ds, e \div 2), e - e \div 2)

\* ds plus one: the digits after which there are only nines change
Increment(ds) ==
    LET NinesAfter(i) == \A j \in (i + 1)..Len(ds) : ds[j] = 9
        d == [i \in 1..Len(ds) |-> IF NinesAfter(i) THEN (ds[i] + 1) % 10 ELSE ds[i]]
    IN  IF NinesAfter(0) THEN <<1>> \o d ELSE <<>> \o d

\* a < b
Less(a, b) ==
    \/ Len(a) < Len(b)
    \/ /\ Len(a) = Len(b)
       /\ \E i \in 1..Len(a) :
              /\ a[i] < b[i]
              /\ \A j \in 1..(i - 1) : a[j] = b[j]

\* 2^52 and 2^53: the whole numbers below 2^53 are doubles, and above it a
\* double is a whole number of 53 bits times a power of two
TwoTo52 == <<4, 5, 0, 3, 5, 9, 9, 6, 2, 7, 3, 7, 0, 4, 9, 6>>
TwoTo53 == <<9, 0, 0, 7, 1, 9, 9, 2, 5, 4, 7, 4, 0, 9, 9, 2>>

\* the number of bits of ds (at least 2^53) beyond 53: a number of n digits
\* has between 3.321 (n - 1) and 3.322 n + 1 bits
ExponentOf(ds) ==
    LET n == Len(ds)
        low == (3321 * (n - 1)) \div 1000 - 53
        high == (3322 * n) \div 1000 - 52
    IN  CHOOSE e \in (IF low < 1 THEN 1 ELSE low)..high :
            /\ Less(ShiftRight(ds, e), TwoTo53)
            /\ ~Less(ShiftRight(ds, e), TwoTo52)

\* The double nearest to the whole number ds: the number itself below 2^53;
\* above, its leading 53 bits rounded to nearest, ties to even, by the bit
\* after them (guard) and the bits after that (sticky), times the power of two.
\* The doubles end at (2^53 - 1) * 2^971, and a number of 310 digits is beyond.
NearestDouble(ds) ==
    IF Less(ds, TwoTo53) THEN ds
    ELSE IF Len(ds) >= 310 THEN "Infinity"
    ELSE LET e == ExponentOf(ds)
             leading == ShiftRight(ds, e)
             above == ShiftRight(ds, e - 1)
             guard == above[Len(above)] % 2 = 1
             sticky == ShiftLeft(above, e - 1) # ds
             odd == leading[Len(leading)] % 2 = 1
             q == IF guard /\ (sticky \/ odd) THEN Increment(leading) ELSE leading
         IN  IF e > 971 \/ (e = 971 /\ q = TwoTo53) THEN "Infinity"
             ELSE ShiftLeft(q, e)

\* the number that sign and the digits ds (no leading zero) denote
NumberOf(sign, ds) ==
    IF Len(ds) <= 9 THEN Num(sign * IntOf(ds))
    ELSE Num([sign |-> sign, magnitude |-> NearestDouble(ds)])

\* the digits from i on, up to the first character that is none
ParseDigitsAt(cs, i, sign) ==
    LET end == CHOOSE j \in i..(Len(cs) + 1) :
                   /\ At(cs, j) \notin DigitChars
                   /\ \A k \in i..(j - 1) : cs[k] \in DigitChars
    IN  Parsed(NumberOf(sign, [k \in 1..(end - i) |-> DigitValue(cs[i + k - 1])]), end)

\* a number at i: an optional "-", then "0" or digits that begin with none
ParseNumberAt(cs, i) ==
    LET sign == IF At(cs, i) = "-" THEN -1 ELSE 1
        j == IF At(cs, i) = "-" THEN i + 1 ELSE i
    IN  IF At(cs, j) = "0" THEN Parsed(Num(0), j + 1)
        ELSE IF At(cs, j) \in DigitChars THEN ParseDigitsAt(cs, j, sign)
        ELSE ParseFailure

Literal(cs, i, word) == i + Len(word) - 1 <= Len(cs) /\ SubSeq(cs, i, i + Len(word) - 1) = word

RECURSIVE ParseValueAt(_, _)
RECURSIVE ParseElementsAt(_, _, _)
RECURSIVE ParseMembersAt(_, _, _)

ParseValueAt(cs, i0) ==
    LET i == SkipWs(cs, i0)
        c == At(cs, i)
    IN  IF c = "{"
        THEN IF At(cs, SkipWs(cs, i + 1)) = "}"
             THEN Parsed(Obj(<<>>), SkipWs(cs, i + 1) + 1)
             ELSE ParseMembersAt(cs, i + 1, <<>>)
        ELSE IF c = "["
        THEN IF At(cs, SkipWs(cs, i + 1)) = "]"
             THEN Parsed(Arr(<<>>), SkipWs(cs, i + 1) + 1)
             ELSE ParseElementsAt(cs, i + 1, <<>>)
        ELSE IF c = "\"" THEN ParseStringAt(cs, i + 1, "")
        ELSE IF c = "-" \/ c \in DigitChars THEN ParseNumberAt(cs, i)
        ELSE IF Literal(cs, i, <<"n", "u", "l", "l">>) THEN Parsed(Null, i + 4)
        ELSE IF Literal(cs, i, <<"t", "r", "u", "e">>) THEN Parsed(Bool(TRUE), i + 4)
        ELSE IF Literal(cs, i, <<"f", "a", "l", "s", "e">>) THEN Parsed(Bool(FALSE), i + 5)
        ELSE ParseFailure

ParseElementsAt(cs, i, acc) ==
    LET v == ParseValueAt(cs, i) IN
    IF ~v.ok THEN ParseFailure
    ELSE LET j == SkipWs(cs, v.next) IN
         IF At(cs, j) = "," THEN ParseElementsAt(cs, j + 1, Append(acc, v.value))
         ELSE IF At(cs, j) = "]" THEN Parsed(Arr(Append(acc, v.value)), j + 1)
         ELSE ParseFailure

ParseMembersAt(cs, i0, acc) ==
    LET i == SkipWs(cs, i0) IN
    IF At(cs, i) # "\"" THEN ParseFailure
    ELSE LET k == ParseStringAt(cs, i + 1, "") IN
         IF ~k.ok \/ At(cs, SkipWs(cs, k.next)) # ":" THEN ParseFailure
         ELSE LET v == ParseValueAt(cs, SkipWs(cs, k.next) + 1) IN
              IF ~v.ok THEN ParseFailure
              ELSE LET j == SkipWs(cs, v.next)
                       members == MapSet(acc, k.value[2], v.value)
                   IN  IF At(cs, j) = "," THEN ParseMembersAt(cs, j + 1, members)
                       ELSE IF At(cs, j) = "}" THEN Parsed(Obj(members), j + 1)
                       ELSE ParseFailure

\* the whole text must be one value
JSONParse(cs) ==
    LET v == ParseValueAt(cs, 1) IN
    IF v.ok /\ SkipWs(cs, v.next) = Len(cs) + 1 THEN v ELSE ParseFailure

\* the SyntaxError JSON.parse throws
SyntaxErrorValue == Obj([name |-> Str("SyntaxError")])

----------------------------------------------------------------------------
(* packages/server: the dispatcher *)

\* the keys of the handler map given to createJsonRpcServer
RegisteredMethods == {"add"}

\* the members a handler map written as an object literal inherits from
\* Object.prototype and the model asks for
ObjectPrototypeMembers == {"toString"}

\* methods[method]: the property read goes through the prototype chain
methodsGet(method) ==
    IF method[2] \in RegisteredMethods THEN Fn(method[2])
    ELSE IF method[2] \in ObjectPrototypeMembers THEN Fn("Object.prototype." \o method[2])
    ELSE Undef

\* options.strictMethodHandling ?? true
strictMethodHandling ==
    IF strictOption \in {Null, Undef} THEN TRUE ELSE Truthy(strictOption)

\* a logger call: the level, the message and the further arguments
LogEntry(level, message, args) == <<level, Str(message)>> \o args

\* the dispatcher's state as one value
Server == [pc |-> pc, rawJsonPayload |-> rawJsonPayload, context |-> context,
           parsedPayload |-> parsedPayload, index |-> index, results |-> results,
           responses |-> responses, outcome |-> outcome, invocations |-> invocations,
           logger |-> logger]

\* return value: the promise of handleJsonRpcRequest fulfils with value
Return(sv, value) ==
    [sv EXCEPT !.pc = "done", !.outcome = [state |-> "fulfilled", value |-> value]]

Log(sv, entry) == [sv EXCEPT !.logger = Append(sv.logger, entry)]

\* the elements the dispatcher processes: those of the array, or the one value
Items(payload) == IF IsArray(payload) THEN payload[2] ELSE <<payload>>

\* a validation that asks one element of an array to be a Request or a
\* Notification, not every one
isValidJsonRpcPayloadSome(payload) ==
    IF IsArray(payload)
    THEN Len(payload[2]) = 0
         \/ \E i \in 1..Len(payload[2]) :
                isJSONRPCRequest(payload[2][i]) \/ isJSONRPCNotification(payload[2][i])
    ELSE isJSONRPCRequest(payload) \/ isJSONRPCNotification(payload)

\* payload.every(item => isJSONRPCRequest(item) || isJSONRPCNotification(item))
\* for an array, the two predicates for any other value
isValidJsonRpcPayload(payload) ==
    IF IsArray(payload)
    THEN \A i \in 1..Len(payload[2]) :
             isJSONRPCRequest(payload[2][i]) \/ isJSONRPCNotification(payload[2][i])
    ELSE isJSONRPCRequest(payload) \/ isJSONRPCNotification(payload)

\* a dispatcher that answers every element with id null
IdForNull(request) == Null

\* const id = isRequest ? request.id : null
IdFor(request) == IF isJSONRPCRequest(request) THEN Get(request, "id") ELSE Null

\* handleSingleRequest up to the handler invocation: either the handler to
\* invoke (invoke = TRUE), or what it returns without one and what it logs
handleSingleRequestLookup(request) ==
    LET isRequest == isJSONRPCRequest(request)
        isNotification == isJSONRPCNotification(request)
    IN  IF ~isRequest /\ ~isNotification
        THEN [invoke |-> FALSE, handler |-> Undef, log |-> <<>>,
              response |-> createJsonRpcErrorResponse(Null,
                               createStandardJsonRpcError("INVALID_REQUEST", Undef))]
        ELSE LET method == Get(request, "method")
                 methodHandler == methodsGet(method)
             IN  IF ~Truthy(methodHandler)
                 THEN IF isNotification
                      THEN [invoke |-> FALSE, handler |-> Undef, response |-> Null,
                            log |-> <<LogEntry("info",
                                "JSON-RPC notification for unknown method: " \o method[2], <<>>)>>]
                      ELSE IF strictMethodHandling
                      THEN [invoke |-> FALSE, handler |-> Undef,
                            response |-> createJsonRpcErrorResponse(IdFor(request),
                                createStandardJsonRpcError("METHOD_NOT_FOUND", Undef)),
                            log |-> <<LogEntry("warn",
                                "JSON-RPC method not found: " \o method[2], <<>>)>>]
                      ELSE [invoke |-> FALSE, handler |-> Undef, response |-> Null,
                            log |-> <<LogEntry("info",
                                "JSON-RPC method not found (non-strict mode): " \o method[2], <<>>)>>]
                 ELSE [invoke |-> TRUE, handler |-> methodHandler, response |-> Null,
                       log |-> <<>>]

\* a dispatcher that answers a notification whose handler succeeded as it
\* answers a request
handleSingleRequestResultAnswering(request, result) ==
    [response |-> Obj([jsonrpc |-> Str("2.0"), id |-> IdFor(request), result |-> result]),
     log |-> <<>>]

\* handleSingleRequest after the handler returned result, or its awaitable
\* fulfilled with it
handleSingleRequestResult(request, result) ==
    IF isJSONRPCNotification(request)
    THEN [response |-> Null, log |-> <<>>]
    ELSE [response |-> Obj([jsonrpc |-> Str("2.0"), id |-> IdFor(request), result |-> result]),
          log |-> <<>>]

\* a dispatcher that takes no failure for a custom JSON-RPC error
IsCustomErrorNever(error) == FALSE

\* error && typeof error === 'object' && 'code' in error && 'message' in error
IsCustomError(error) ==
    Truthy(error) /\ IsObject(error) /\ HasKey(error, "code") /\ HasKey(error, "message")

\* handleSingleRequest after the handler threw error, or its awaitable rejected
\* with it
handleSingleRequestCatch(request, error) ==
    LET method == Get(request, "method") IN
    IF isJSONRPCNotification(request)
    THEN [response |-> Null,
          log |-> <<LogEntry("error",
              "JSON-RPC notification method error in " \o method[2] \o ":", <<error>>)>>]
    ELSE IF IsCustomError(error)
    THEN [response |-> createJsonRpcErrorResponse(IdFor(request), error),
          log |-> <<LogEntry("warn",
              "JSON-RPC method error in " \o method[2] \o ":", <<error>>)>>]
    ELSE [response |-> createJsonRpcErrorResponse(IdFor(request),
                           createStandardJsonRpcError("INTERNAL_ERROR", Undef)),
          log |-> <<LogEntry("error",
              "JSON-RPC internal error in " \o method[2] \o ":", <<error>>)>>]

\* a promise a handler returns, as it has settled
Promise(state, value) == <<"promise", [state |-> state, value |-> value]>>

\* an evaluation that takes what the handler returned for its result, a promise
\* included
notAwaited(x) == [threw |-> FALSE, value |-> x]

\* await x: the value of a fulfilled promise, the throw of the reason of a
\* rejected one, x itself when x is no promise
await(x) ==
    IF x[1] = "promise"
    THEN [threw |-> x[2].state = "rejected", value |-> x[2].value]
    ELSE [threw |-> FALSE, value |-> x]

\* try { const result = await methodHandler(params, context); ... } catch (error)
\* { ... }: handleSingleRequest from the completion of the handler call on, which
\* threw completion.value or returned it
handleSingleRequestSettle(request, completion) ==
    LET awaited == IF completion.threw THEN completion ELSE await(completion.value) IN
    IF awaited.threw
    THEN handleSingleRequestCatch(request, awaited.value)
    ELSE handleSingleRequestResult(request, awaited.value)

\* a batch that answers with the array of its responses even when it is empty
batchResultAlwaysArray(collected) == Arr(collected)

\* return responses.length > 0 ? responses : null
batchResult(collected) == IF Len(collected) > 0 THEN Arr(collected) ELSE Null

\* responses.unshift(response): the newest response first
unshift(collected, response) == <<response>> \o collected

\* responses.push(response)
push(collected, response) == Append(collected, response)

RECURSIVE processFrom(_, _)

\* handleSingleRequest of element i has returned response: its promise is
\* fulfilled with it, and the dispatch, suspended at the await of line 233 (a
\* batch) or having returned that promise (line 243, a single value), goes on
\* in a later microtask; other callbacks run before it does
collect(sv, i, response) ==
    [sv EXCEPT !.pc = "resuming", !.index = i, !.results = Append(sv.results, response)]

\* a dispatcher that invokes the handler of element i and goes on to element
\* i + 1 without awaiting it
processFromUnawaited(sv, i) ==
    LET items == Items(sv.parsedPayload) IN
    IF i > Len(items)
    THEN Return(sv, batchResult(sv.responses))
    ELSE LET found == handleSingleRequestLookup(items[i]) IN
         IF found.invoke
         THEN processFrom([sv EXCEPT !.index = i,
                              !.results = Append(sv.results, Null),
                              !.invocations = Append(sv.invocations,
                                  [handler |-> found.handler,
                                   params |-> Get(items[i], "params"),
                                   context |-> sv.context,
                                   element |-> i,
                                   settled |-> "pending",
                                   value |-> Undef])], i + 1)
         ELSE collect([sv EXCEPT !.logger = sv.logger \o found.log], i, found.response)

\* the dispatch from element i on, up to the next await or the return: after
\* the last element of a batch the return of line 239; otherwise
\* handleSingleRequest of element i is called and runs up to the await of its
\* handler call, or to its return when it invokes none
processFrom(sv, i) ==
    LET items == Items(sv.parsedPayload) IN
    IF i > Len(items)
    THEN Return(sv, batchResult(sv.responses))
    ELSE LET found == handleSingleRequestLookup(items[i]) IN
         IF found.invoke
         THEN [sv EXCEPT !.pc = "awaiting", !.index = i,
                         !.invocations = Append(sv.invocations,
                             [handler |-> found.handler,
                              params |-> Get(items[i], "params"),
                              context |-> sv.context,
                              element |-> i,
                              settled |-> "pending",
                              value |-> Undef])]
         ELSE collect([sv EXCEPT !.logger = sv.logger \o found.log], i, found.response)

\* a dispatcher whose batch loop ends at the first ErrorResponse
resumeUntilError(sv) ==
    LET response == sv.results[sv.index] IN
    IF IsArray(sv.parsedPayload)
    THEN IF HasKey(response, "error")
         THEN Return(sv, batchResult(push(sv.responses, response)))
         ELSE processFrom([sv EXCEPT !.responses =
                              IF response # Null THEN push(sv.responses, response)
                              ELSE sv.responses], sv.index + 1)
    ELSE Return(sv, response)

\* the dispatch goes on with the result of handleSingleRequest of the element
\* it waited for: a batch pushes it when it is not null and goes on to the
\* next element (lines 234-237), a single value fulfils with it (line 243)
resume(sv) ==
    LET response == sv.results[sv.index] IN
    IF IsArray(sv.parsedPayload)
    THEN processFrom([sv EXCEPT !.responses =
                         IF response # Null THEN push(sv.responses, response)
                         ELSE sv.responses], sv.index + 1)
    ELSE Return(sv, response)

\* a dispatcher that lets the SyntaxError of JSON.parse out: its promise rejects
parseErrorUncaught(sv) ==
    [sv EXCEPT !.pc = "done", !.outcome = [state |-> "rejected", value |-> SyntaxErrorValue]]

\* catch (error) { logger.error(...); return createJsonRpcErrorResponse(null, parseError) }
parseErrorCaught(sv) ==
    Return(Log(sv, LogEntry("error", "JSON-RPC parse error:", <<SyntaxErrorValue>>)),
           createJsonRpcErrorResponse(Null, createStandardJsonRpcError("PARSE_ERROR", Undef)))

\* an empty array taken for a batch like any other
isEmptyBatchNever(payload) == FALSE

\* Array.isArray(parsedPayload) and parsedPayload.length === 0
isEmptyBatch(payload) == IsArray(payload) /\ Len(payload[2]) = 0

\* handleJsonRpcRequest(rawJsonPayload, context) up to its first await or its
\* return
handleJsonRpcRequest(sv) ==
    LET parsed == IF IsText(sv.rawJsonPayload)
                  THEN JSONParse(sv.rawJsonPayload[2])
                  ELSE Parsed(sv.rawJsonPayload, 0)
    IN  IF ~parsed.ok
        THEN parseErrorCaught(sv)
        ELSE LET started == [sv EXCEPT !.parsedPayload = parsed.value] IN
             IF ~isValidJsonRpcPayload(parsed.value)
             THEN Return(Log(started, LogEntry("warn",
                             "JSON-RPC invalid request structure:", <<parsed.value>>)),
                         createJsonRpcErrorResponse(Null,
                             createStandardJsonRpcError("INVALID_REQUEST", Undef)))
             ELSE IF isEmptyBatch(parsed.value)
             THEN Return(Log(started, LogEntry("warn", "JSON-RPC empty batch request", <<>>)),
                         createJsonRpcErrorResponse(Null,
                             createStandardJsonRpcError("INVALID_REQUEST", Undef)))
             ELSE processFrom(started, 1)

----------------------------------------------------------------------------
(* What the dispatcher is given *)

\* the number of elements of a batch
MaxBatch == 2

\* options.strictMethodHandling: true, false, or omitted
StrictOptions == {Bool(TRUE), Bool(FALSE), Undef}

ServerMethods == {Str("add"), Str("nope"), Str("toString")}
ServerIds == {Num(1), Str("a")}
Contexts == {Undef, Obj([userId |-> Str("u")])}

\* requests for the registered method under each id, and for the other
\* methods under the first
RequestsIn ==
    {createJsonRpcRequest(Str("add"), id, p) : id \in ServerIds, p \in ParamsValues}
    \cup {createJsonRpcRequest(m, Num(1), Undef) : m \in ServerMethods \ {Str("add")}}

NotificationsIn ==
    {createJsonRpcNotification(m, Undef) : m \in ServerMethods}

\* values that are neither a Request nor a Notification: an object without the
\* members, and a request whose id is null
InvalidItems ==
    {Obj([invalid |-> Str("structure")]),
     Obj([jsonrpc |-> Str("2.0"), method |-> Str("add"), id |-> Null])}

BatchItems == RequestsIn \cup NotificationsIn \cup InvalidItems

\* requests whose id key is there and holds neither a string nor a number:
\* undefined and an object (id null is among InvalidItems)
BadIdPayloads ==
    {Obj([jsonrpc |-> Str("2.0"), method |-> Str("add"), id |-> Undef]),
     Obj([jsonrpc |-> Str("2.0"), method |-> Str("add"),
          id |-> Obj([value |-> Num(1)])])}

\* the sequences over S of at most n elements
SeqsUpTo(S, n) == UNION {[1..k -> S] : k \in 0..n}

\* 'invalid json{'
TextInvalidJson ==
    Text(<<"i", "n", "v", "a", "l", "i", "d", " ", "j", "s", "o", "n", "{">>)

\* a request cut short: '{"jsonrpc":"2.0","method":"add","id":1'
TextTruncated ==
    Text(<<"{", "\"", "j", "s", "o", "n", "r", "p", "c", "\"", ":", "\"",
         "2", ".", "0", "\"", ",", "\"", "m", "e", "t", "h", "o", "d", "\"",
         ":", "\"", "a", "d", "d", "\"", ",", "\"", "i", "d", "\"", ":", "1">>)

\* the empty text
TextEmpty ==
    Text(<<>>)

\* JSON.stringify of a request: '{"jsonrpc":"2.0","method":"add","id":1}'
TextRequest ==
    Text(<<"{", "\"", "j", "s", "o", "n", "r", "p", "c", "\"", ":", "\"",
         "2", ".", "0", "\"", ",", "\"", "m", "e", "t", "h", "o", "d", "\"",
         ":", "\"", "a", "d", "d", "\"", ",", "\"", "i", "d", "\"", ":", "1",
         "}">>)

\* a batch of a notification and a request: '[{"jsonrpc":"2.0","method":"add"}, {"jsonrpc":"2.0","method":"nope","id":"a"}]'
TextBatch ==
    Text(<<"[", "{", "\"", "j", "s", "o", "n", "r", "p", "c", "\"", ":",
         "\"", "2", ".", "0", "\"", ",", "\"", "m", "e", "t", "h", "o", "d",
         "\"", ":", "\"", "a", "d", "d", "\"", "}", ",", " ", "{", "\"", "j",
         "s", "o", "n", "r", "p", "c", "\"", ":", "\"", "2", ".", "0", "\"",
         ",", "\"", "m", "e", "t", "h", "o", "d", "\"", ":", "\"", "n", "o",
         "p", "e", "\"", ",", "\"", "i", "d", "\"", ":", "\"", "a", "\"",
         "}", "]">>)

\* '[]'
TextEmptyBatch ==
    Text(<<"[", "]">>)

\* '42'
TextNumber ==
    Text(<<"4", "2">>)

\* a request whose id is null: '{"jsonrpc":"2.0","method":"add","id":null}'
TextNullId ==
    Text(<<"{", "\"", "j", "s", "o", "n", "r", "p", "c", "\"", ":", "\"",
         "2", ".", "0", "\"", ",", "\"", "m", "e", "t", "h", "o", "d", "\"",
         ":", "\"", "a", "d", "d", "\"", ",", "\"", "i", "d", "\"", ":",
         "n", "u", "l", "l", "}">>)

\* the request after a tab and before a line feed
TextPadded ==
    Text(<<"\t">> \o TextRequest[2] \o <<"\n">>)

\* a string that holds a tab unescaped: '"a<TAB>b"'
TextControl ==
    Text(<<"\"", "a", "\t", "b", "\"">>)

TextPayloads ==
    {TextInvalidJson, TextTruncated, TextEmpty, TextRequest, TextBatch, TextEmptyBatch,
     TextNumber, TextNullId, TextPadded, TextControl}

\* the payloads handed to handleJsonRpcRequest: decoded values, single or
\* arrays, and texts
Payloads ==
    BatchItems \cup BadIdPayloads \cup {Num(42), Null}
    \cup {Arr(items) : items \in SeqsUpTo(BatchItems, MaxBatch)}
    \cup TextPayloads

\* what a registered handler returns, or its awaitable fulfils with
HandlerResults == {Num(3), Undef}

\* what a registered handler throws, or its awaitable rejects with: an
\* ErrorObject, an Error, an Error that carries a code that is no number (as
\* the errors of the file system do), and undefined
HandlerFailures ==
    {createJsonRpcError(Num(-32001), Str("custom"), Str("d")),
     Obj([name |-> Str("Error"), message |-> Str("boom")]),
     Obj([name |-> Str("Error"), message |-> Str("no such file"), code |-> Str("ENOENT")]),
     Undef}

\* what the handler found returns: a registered handler any of the results,
\* Object.prototype.toString called without a receiver "[object Undefined]"
ReturnsOf(handler) ==
    IF handler[2] \in RegisteredMethods THEN HandlerResults
    ELSE {Str("[object Undefined]")}

\* what the handler found fails with: Object.prototype.toString never throws
FailuresOf(handler) ==
    IF handler[2] \in RegisteredMethods THEN HandlerFailures ELSE {}

----------------------------------------------------------------------------
(* The dispatcher as a state machine *)

ServerInit ==
    /\ InitCalls /\ InitNotify /\ InitCore /\ InitConcurrency
    /\ \E option \in StrictOptions : InitServer(option)

\* the variables of the dispatch take the values of sv
DispatchBecomes(sv) ==
    /\ pc' = sv.pc
    /\ rawJsonPayload' = sv.rawJsonPayload
    /\ context' = sv.context
    /\ parsedPayload' = sv.parsedPayload
    /\ index' = sv.index
    /\ results' = sv.results
    /\ responses' = sv.responses
    /\ outcome' = sv.outcome
    /\ invocations' = sv.invocations
    /\ logger' = sv.logger

\* the server variables take the values of sv
ServerBecomes(sv) ==
    /\ DispatchBecomes(sv)
    /\ UNCHANGED <<strictOption, callVars, notifyVars, coreVars, concurrencyVars>>

\* the element whose handler is awaited
CurrentItem == Items(parsedPayload)[index]

\* the handler that is awaited
CurrentHandler == invocations[Len(invocations)].handler

\* handleJsonRpcRequest(payload, ctx) is called
Dispatch(payload, ctx) ==
    /\ pc = "idle"
    /\ ServerBecomes(handleJsonRpcRequest(
           [Server EXCEPT !.rawJsonPayload = payload, !.context = ctx]))

\* the dispatch goes on after the await of handleSingleRequest
DispatchResumes ==
    /\ pc = "resuming"
    /\ ServerBecomes(resume(Server))

\* handleSingleRequest goes on from the completion of the awaited handler
\* call, which the invocation keeps as settled and value, up to its return
HandlerCompletes(completion, settled, value) ==
    LET done == handleSingleRequestSettle(CurrentItem, completion)
        k == Len(invocations)
    IN  ServerBecomes(collect(
            [Server EXCEPT !.logger = logger \o done.log,
                           !.invocations[k].settled = settled,
                           !.invocations[k].value = value],
            index, done.response))

\* the awaited handler returns result, or (awaitable) returns a promise that
\* fulfils with it
HandlerReturns(result, awaitable) ==
    /\ pc = "awaiting"
    /\ result \in ReturnsOf(CurrentHandler)
    /\ awaitable => CurrentHandler[2] \in RegisteredMethods
    /\ HandlerCompletes(
           [threw |-> FALSE,
            value |-> IF awaitable THEN Promise("fulfilled", result) ELSE result],
           "returned", result)

\* the awaited handler throws error, or (awaitable) returns a promise that
\* rejects with it
HandlerFails(error, awaitable) ==
    /\ pc = "awaiting"
    /\ error \in FailuresOf(CurrentHandler)
    /\ HandlerCompletes(
           IF awaitable THEN [threw |-> FALSE, value |-> Promise("rejected", error)]
           ELSE [threw |-> TRUE, value |-> error],
           "failed", error)

ServerNext ==
    \/ \E payload \in Payloads, ctx \in Contexts : Dispatch(payload, ctx)
    \/ \E result \in HandlerResults \cup {Str("[object Undefined]")}, awaitable \in BOOLEAN :
           HandlerReturns(result, awaitable)
    \/ \E error \in HandlerFailures, awaitable \in BOOLEAN : HandlerFails(error, awaitable)
    \/ DispatchResumes

ServerSpec == ServerInit /\ [][ServerNext]_vars

----------------------------------------------------------------------------
(* Several calls of handleJsonRpcRequest on one server *)

\* the number of calls made on the server after its first call has completed
MaxDispatches == 1

\* a dispatcher whose responses array is declared once for the server, so that
\* a call starts with the responses of the call before it or beside it
localsKeepingResponses(previous, payload, ctx) ==
    [IdleServer EXCEPT !.rawJsonPayload = payload, !.context = ctx,
                       !.responses = previous.responses]

\* the variables of a new call of handleJsonRpcRequest(payload, ctx):
\* parsedPayload (line 203) and responses (line 231) are declared inside the
\* function, so nothing of previous, the call before it or beside it, is in them
locals(previous, payload, ctx) ==
    [IdleServer EXCEPT !.rawJsonPayload = payload, !.context = ctx]

\* handleSingleRequest of the dispatch sv from the completion of its awaited
\* handler call up to its return
handlerCompletes(sv, completion, settled, value) ==
    LET done == handleSingleRequestSettle(Items(sv.parsedPayload)[sv.index], completion)
        k == Len(sv.invocations)
    IN  collect([sv EXCEPT !.logger = sv.logger \o done.log,
                           !.invocations[k].settled = settled,
                           !.invocations[k].value = value],
                sv.index, done.response)

\* the payloads dispatched more than once: a request for the registered method,
\* and a batch of it and a request for an unknown method
RepeatedPayloads ==
    {createJsonRpcRequest(Str("add"), Num(1), Undef),
     Arr(<<createJsonRpcRequest(Str("add"), Num(1), Undef),
           createJsonRpcRequest(Str("nope"), Num(1), Undef)>>)}

RepeatedResults == {Num(3)}
RepeatedFailures ==
    {createJsonRpcError(Num(-32001), Str("custom"), Str("d")),
     Obj([name |-> Str("Error"), message |-> Str("boom")])}

\* handleJsonRpcRequest(payload, ctx) is called after an earlier call completed
DispatchAgain(payload, ctx) ==
    /\ pc = "done"
    /\ dispatched < MaxDispatches
    /\ dispatched' = dispatched + 1
    /\ DispatchBecomes(handleJsonRpcRequest(locals(Server, payload, ctx)))
    /\ UNCHANGED <<strictOption, concurrent, dispatches, callVars, notifyVars, coreVars>>

\* handleJsonRpcRequest(payload, ctx) is called a second time, whatever the
\* first call is at
ConcurrentDispatch(payload, ctx) ==
    /\ concurrent.pc = "idle"
    /\ concurrent' = handleJsonRpcRequest(locals(Server, payload, ctx))
    /\ UNCHANGED <<dispatched, dispatches, callVars, notifyVars, serverVars, coreVars>>

\* the handler awaited by the second call returns result
ConcurrentHandlerReturns(result) ==
    /\ concurrent.pc = "awaiting"
    /\ result \in ReturnsOf(concurrent.invocations[Len(concurrent.invocations)].handler)
    /\ concurrent' = handlerCompletes(concurrent, [threw |-> FALSE, value |-> result],
                                      "returned", result)
    /\ UNCHANGED <<dispatched, dispatches, callVars, notifyVars, serverVars, coreVars>>

\* the handler awaited by the second call throws error
ConcurrentHandlerFails(error) ==
    /\ concurrent.pc = "awaiting"
    /\ error \in FailuresOf(concurrent.invocations[Len(concurrent.invocations)].handler)
    /\ concurrent' = handlerCompletes(concurrent, [threw |-> TRUE, value |-> error],
                                      "failed", error)
    /\ UNCHANGED <<dispatched, dispatches, callVars, notifyVars, serverVars, coreVars>>

\* the second call goes on after the await of handleSingleRequest
ConcurrentDispatchResumes ==
    /\ concurrent.pc = "resuming"
    /\ concurrent' = resume(concurrent)
    /\ UNCHANGED <<dispatched, dispatches, callVars, notifyVars, serverVars, coreVars>>

RepeatedNext ==
    \/ \E payload \in RepeatedPayloads, ctx \in Contexts : Dispatch(payload, ctx)
    \/ \E payload \in RepeatedPayloads, ctx \in Contexts : DispatchAgain(payload, ctx)
    \/ \E payload \in RepeatedPayloads, ctx \in Contexts : ConcurrentDispatch(payload, ctx)
    \/ \E result \in RepeatedResults : HandlerReturns(result, FALSE)
    \/ \E error \in RepeatedFailures : HandlerFails(error, FALSE)
    \/ \E result \in RepeatedResults : ConcurrentHandlerReturns(result)
    \/ \E error \in RepeatedFailures : ConcurrentHandlerFails(error)
    \/ DispatchResumes
    \/ ConcurrentDispatchResumes

RepeatedSpec == ServerInit /\ [][RepeatedNext]_vars

----------------------------------------------------------------------------
(* A client whose transport is a dispatcher:
   createJsonRpcClient(request => server.handleJsonRpcRequest(request)), the
   server created without options (strict mode) *)

\* the handler that dispatch sv awaits
AwaitedHandler(sv) == sv.invocations[Len(sv.invocations)].handler

\* call(method, params): inside the promise executor the transport is invoked
\* with the request, which calls handleJsonRpcRequest(request); that call runs
\* up to its first await before the transport invocation returns its promise,
\* whatever the calls of handleJsonRpcRequest made by earlier calls are at
CallDispatches(method, params) ==
    /\ nextId <= MaxCalls
    /\ LET id == generateId
           request == createJsonRpcRequest(method, Num(id), params)
           previous == IF Len(dispatches) = 0 THEN IdleServer
                       ELSE dispatches[Len(dispatches)]
       IN
       /\ nextId' = nextId + 1
       /\ sent' = Append(sent, request)
       /\ promises' = Append(promises, PendingPromise)
       /\ pendingRequests' = MapSet(pendingRequests, Num(id), Len(promises) + 1)
       /\ transports' = Append(transports, "inflight")
       /\ dispatches' = Append(dispatches,
                               handleJsonRpcRequest(locals(previous, request, Undef)))
    /\ UNCHANGED <<notifyVars, serverVars, coreVars, concurrent, dispatched>>

\* the handler awaited by the dispatch of call c returns result, or (awaitable)
\* returns a promise that fulfils with it
CallHandlerReturns(c, result, awaitable) ==
    /\ c \in 1..Len(dispatches)
    /\ dispatches[c].pc = "awaiting"
    /\ result \in ReturnsOf(AwaitedHandler(dispatches[c]))
    /\ awaitable => AwaitedHandler(dispatches[c])[2] \in RegisteredMethods
    /\ dispatches' = [dispatches EXCEPT ![c] =
           handlerCompletes(@, [threw |-> FALSE,
                                value |-> IF awaitable THEN Promise("fulfilled", result)
                                          ELSE result],
                            "returned", result)]
    /\ UNCHANGED <<callVars, notifyVars, serverVars, coreVars, concurrent, dispatched>>

\* the handler awaited by the dispatch of call c throws error, or (awaitable)
\* returns a promise that rejects with it
CallHandlerFails(c, error, awaitable) ==
    /\ c \in 1..Len(dispatches)
    /\ dispatches[c].pc = "awaiting"
    /\ error \in FailuresOf(AwaitedHandler(dispatches[c]))
    /\ dispatches' = [dispatches EXCEPT ![c] =
           handlerCompletes(@, IF awaitable
                               THEN [threw |-> FALSE, value |-> Promise("rejected", error)]
                               ELSE [threw |-> TRUE, value |-> error],
                            "failed", error)]
    /\ UNCHANGED <<callVars, notifyVars, serverVars, coreVars, concurrent, dispatched>>

\* the dispatch of call c goes on after the await of handleSingleRequest
CallDispatchResumes(c) ==
    /\ c \in 1..Len(dispatches)
    /\ dispatches[c].pc = "resuming"
    /\ dispatches' = [dispatches EXCEPT ![c] = resume(@)]
    /\ UNCHANGED <<callVars, notifyVars, serverVars, coreVars, concurrent, dispatched>>

\* the dispatch of the request of call c has completed: the transport
\* invocation settles as the promise of handleJsonRpcRequest did, and the
\* then-callback of the call runs with its result (the catch-callback with its
\* reason).  The result of dispatching a Request object in strict mode is a
\* response object, so the then-callback does not throw here and no
\* catch-callback is queued.
TransportReturns(c) ==
    /\ c \in 1..Len(transports)
    /\ transports[c] = "inflight"
    /\ dispatches[c].pc = "done"
    /\ LET fulfilled == dispatches[c].outcome.state = "fulfilled"
           st == IF fulfilled THEN AfterFulfil(c, dispatches[c].outcome.value)
                 ELSE AfterReject(c, dispatches[c].outcome.value)
       IN
       /\ nextId' = st.nextId
       /\ pendingRequests' = st.pending
       /\ promises' = st.promises
       /\ transports' = [transports EXCEPT ![c] =
              IF ~fulfilled THEN "rejected"
              ELSE IF st.threw THEN "catching" ELSE "fulfilled"]
    /\ UNCHANGED <<sent, notifyVars, serverVars, coreVars, concurrencyVars>>

EndToEndNext ==
    \/ \E m \in ServerMethods, p \in ParamsValues : CallDispatches(m, p)
    \/ \E c \in 1..MaxCalls, awaitable \in BOOLEAN :
           \E result \in HandlerResults \cup {Str("[object Undefined]")} :
               CallHandlerReturns(c, result, awaitable)
    \/ \E c \in 1..MaxCalls, error \in HandlerFailures, awaitable \in BOOLEAN :
           CallHandlerFails(c, error, awaitable)
    \/ \E c \in 1..MaxCalls : CallDispatchResumes(c)
    \/ \E c \in 1..MaxCalls : TransportReturns(c)

EndToEndSpec == Init /\ [][EndToEndNext]_vars

----------------------------------------------------------------------------
(* packages/core: the predicates evaluated operator by operator *)

\* an expression completes with a value, or throws
Completed(v) == [threw |-> FALSE, value |-> v]
Thrown(e) == [threw |-> TRUE, value |-> e]

\* typeof v
typeof(v) ==
    CASE v[1] \in {"obj", "arr", "null"} -> "object"
      [] v[1] \in {"str", "text"} -> "string"
      [] v[1] = "num" -> "number"
      [] v[1] = "bool" -> "boolean"
      [] v[1] = "fn" -> "function"
      [] v[1] = "undef" -> "undefined"

\* typeof x === t, x an expression
typeofIs(x, t) == IF x.threw THEN x ELSE Completed(typeof(x.value) = t)

\* 'k' in x: a TypeError when the right-hand side is not an object
in(k, x) ==
    IF x.threw THEN x
    ELSE IF x.value[1] \in {"obj", "arr", "fn"} THEN Completed(HasKey(x.value, k))
    ELSE Thrown(TypeErrorValue)

\* x.k: a TypeError when x is null or undefined
read(x, k) ==
    IF x.threw THEN x
    ELSE IF ThrowsOnRead(x.value) THEN Thrown(TypeErrorValue)
    ELSE Completed(Get(x.value, k))

\* x === v and x !== v
strictEquals(x, v) == IF x.threw THEN x ELSE Completed(x.value = v)
strictNotEquals(x, v) == IF x.threw THEN x ELSE Completed(x.value # v)

\* !x
not(x) == IF x.threw THEN x ELSE Completed(~x.value)

\* a && b and a || b: b is evaluated only when a does not decide
andAlso(a, b) == IF a.threw \/ ~a.value THEN a ELSE b
orElse(a, b) == IF a.threw \/ a.value THEN a ELSE b

\* a0 && a1 && ... from the i-th operand on
RECURSIVE allOfFrom(_, _)
allOfFrom(operands, i) ==
    IF i = Len(operands) THEN operands[i]
    ELSE andAlso(operands[i], allOfFrom(operands, i + 1))

allOf(operands) == allOfFrom(operands, 1)

\* a null test that is left out
notNullUnchecked(x) == Completed(TRUE)

\* x !== null
notNull(x) == strictNotEquals(x, Null)

\* typeof obj.id === 'string' || typeof obj.id === 'number'
idIsStringOrNumber(o) ==
    orElse(typeofIs(read(o, "id"), "string"), typeofIs(read(o, "id"), "number"))

isJSONRPCRequestCompletion(obj) ==
    LET o == Completed(obj) IN
    allOf(<<typeofIs(o, "object"),
            notNull(o),
            in("jsonrpc", o),
            strictEquals(read(o, "jsonrpc"), Str("2.0")),
            in("method", o),
            typeofIs(read(o, "method"), "string"),
            in("id", o),
            idIsStringOrNumber(o)>>)

isJSONRPCNotificationCompletion(obj) ==
    LET o == Completed(obj) IN
    allOf(<<typeofIs(o, "object"),
            notNull(o),
            in("jsonrpc", o),
            strictEquals(read(o, "jsonrpc"), Str("2.0")),
            in("method", o),
            typeofIs(read(o, "method"), "string"),
            not(in("id", o))>>)

isJSONRPCSuccessResponseCompletion(obj) ==
    LET o == Completed(obj) IN
    allOf(<<typeofIs(o, "object"),
            notNull(o),
            in("jsonrpc", o),
            strictEquals(read(o, "jsonrpc"), Str("2.0")),
            in("result", o),
            in("id", o),
            idIsStringOrNumber(o),
            not(in("error", o))>>)

isJSONRPCErrorResponseCompletion(obj) ==
    LET o == Completed(obj) IN
    allOf(<<typeofIs(o, "object"),
            notNull(o),
            in("jsonrpc", o),
            strictEquals(read(o, "jsonrpc"), Str("2.0")),
            in("error", o),
            typeofIs(read(o, "error"), "object"),
            notNull(read(o, "error")),
            in("code", read(o, "error")),
            typeofIs(read(read(o, "error"), "code"), "number"),
            in("message", read(o, "error")),
            typeofIs(read(read(o, "error"), "message"), "string"),
            in("id", o),
            orElse(strictEquals(read(o, "id"), Null), idIsStringOrNumber(o)),
            not(in("result", o))>>)

isJSONRPCResponseCompletion(obj) ==
    orElse(isJSONRPCSuccessResponseCompletion(obj), isJSONRPCErrorResponseCompletion(obj))

isJSONRPCErrorCompletion(obj) ==
    LET o == Completed(obj) IN
    allOf(<<typeofIs(o, "object"),
            notNull(o),
            in("code", o),
            typeofIs(read(o, "code"), "number"),
            in("message", o),
            typeofIs(read(o, "message"), "string")>>)

\* the six predicates applied to obj
classify(obj) ==
    [isJSONRPCRequest |-> isJSONRPCRequestCompletion(obj),
     isJSONRPCNotification |-> isJSONRPCNotificationCompletion(obj),
     isJSONRPCSuccessResponse |-> isJSONRPCSuccessResponseCompletion(obj),
     isJSONRPCErrorResponse |-> isJSONRPCErrorResponseCompletion(obj),
     isJSONRPCResponse |-> isJSONRPCResponseCompletion(obj),
     isJSONRPCError |-> isJSONRPCErrorCompletion(obj)]

----------------------------------------------------------------------------
(* The inputs of the message model and factory *)

\* a key that an object does not have
Absent == <<"absent", 0>>

\* the object whose keys are those that are not Absent in fields
ObjectOf(fields) ==
    Obj([k \in {key \in DOMAIN fields : fields[key] # Absent} |-> fields[k]])

\* what an error key holds: an ErrorObject, with and without data, null, a
\* string, an array, objects whose code or message is missing or of the wrong type
ErrorFields ==
    {Obj([code |-> Num(-32602), message |-> Str("Invalid params")]),
     Obj([code |-> Num(1), message |-> Str("e"), data |-> Str("d")]),
     Null, Str("error"), Arr(<<>>), Obj([message |-> Str("e")]),
     Obj([code |-> Str("E"), message |-> Str("e")]),
     Obj([code |-> Num(1), message |-> Null])}

\* the objects handed to the predicates: every combination of the keys of the
\* four kinds of message, present with a right or a wrong type, or absent
DecodedObjects ==
    {ObjectOf([jsonrpc |-> j, method |-> m, id |-> i, result |-> r, error |-> e,
               params |-> p]) :
        j \in {Absent, Str("2.0"), Str("1.0")},
        m \in {Absent, Str("test"), Num(7)},
        i \in {Absent, Num(1), Str("a"), Null, Bool(TRUE)},
        r \in {Absent, Str("ok"), Null},
        e \in {Absent} \cup ErrorFields,
        p \in {Absent, Obj([test |-> Bool(TRUE)])}}

\* the values handed to the predicates
DecodedValues ==
    DecodedObjects \cup ErrorFields
    \cup {Null, Undef, Num(0), Num(42), Str("string"), Bool(FALSE), Arr(<<>>),
          Arr(<<Num(1)>>)}

FactoryMethods == {Str("test_method"), Str("")}
FactoryIds == {Num(1), Num(0), Str("a"), Str("")}

\* params as supplied: omitted (undefined), null, and values both truthy and falsy
FactoryParams ==
    {Undef, Null, Num(0), Bool(FALSE), Str(""), Arr(<<>>),
     Obj([test |-> Bool(TRUE)])}

\* data as supplied: omitted (undefined), null, and values both truthy and falsy
FactoryData == {Undef, Null, Num(0), Str("d"), Obj([field |-> Str("x")])}

FactoryCodes == {Num(-32602), Num(0), Num(1)}
FactoryMessages == {Str("Invalid params"), Str("")}

\* the five kinds of standard error
StandardKinds == DOMAIN JSONRPC_ERROR_CODES

\* the errors handed to createJsonRpcErrorResponse
FactoryErrors ==
    {createStandardJsonRpcError(kind, data) : kind \in StandardKinds, data \in FactoryData}
    \cup {createJsonRpcError(Num(1), Str("e"), Undef)}

FactoryResults == {Num(3), Null, Str("ok")}

----------------------------------------------------------------------------
(* The message model and factory as a state machine *)

\* nothing evaluated yet: the functions of core keep no state, so a behaviour
\* follows one evaluation
Unevaluated == verdicts = <<>>

\* value is handed to the six predicates
Classify(value) ==
    /\ Unevaluated
    /\ classified' = value
    /\ verdicts' = classify(value)
    /\ factoryCall' = [fn |-> "none", args |-> <<>>, value |-> Undef]
    /\ UNCHANGED <<callVars, notifyVars, serverVars, concurrencyVars>>

\* fn(args) returned value, and value is handed to the six predicates
Built(fn, args, value) ==
    /\ factoryCall' = [fn |-> fn, args |-> args, value |-> value]
    /\ classified' = value
    /\ verdicts' = classify(value)
    /\ UNCHANGED <<callVars, notifyVars, serverVars, concurrencyVars>>

CreateRequest(method, id, params) ==
    /\ Unevaluated
    /\ Built("createJsonRpcRequest", <<method, id, params>>,
             createJsonRpcRequest(method, id, params))

CreateNotification(method, params) ==
    /\ Unevaluated
    /\ Built("createJsonRpcNotification", <<method, params>>,
             createJsonRpcNotification(method, params))

CreateSuccessResponse(id, result) ==
    /\ Unevaluated
    /\ Built("createJsonRpcSuccessResponse", <<id, result>>,
             createJsonRpcSuccessResponse(id, result))

CreateErrorResponse(id, error) ==
    /\ Unevaluated
    /\ Built("createJsonRpcErrorResponse", <<id, error>>,
             createJsonRpcErrorResponse(id, error))

CreateError(code, message, data) ==
    /\ Unevaluated
    /\ Built("createJsonRpcError", <<code, message, data>>,
             createJsonRpcError(code, message, data))

CreateStandardError(kind, data) ==
    /\ Unevaluated
    /\ Built("createStandardJsonRpcError", <<kind, data>>,
             createStandardJsonRpcError(kind, data))

CoreNext ==
    \/ \E value \in DecodedValues : Classify(value)
    \/ \E method \in FactoryMethods, id \in FactoryIds, params \in FactoryParams :
           CreateRequest(method, id, params)
    \/ \E method \in FactoryMethods, params \in FactoryParams :
           CreateNotification(method, params)
    \/ \E id \in FactoryIds, result \in FactoryResults : CreateSuccessResponse(id, result)
    \/ \E id \in FactoryIds \cup {Null}, error \in FactoryErrors :
           CreateErrorResponse(id, error)
    \/ \E code \in FactoryCodes, message \in FactoryMessages, data \in FactoryData :
           CreateError(code, message, data)
    \/ \E kind \in StandardKinds, data \in FactoryData : CreateStandardError(kind, data)

CoreSpec == Init /\ [][CoreNext]_vars

----------------------------------------------------------------------------
(* Vocabulary of the claims *)

Calls == 1..Len(promises)

Settled(c) == promises[c].state # "pending"

\* the entry of call c is in the registry
Registered(c) == IdOf(c) \in DOMAIN pendingRequests /\ pendingRequests[IdOf(c)] = c

\* call c awaits its response (the spec's state awaiting_response): its entry is
\* in the registry and its promise is still pending
Awaiting(c) == Registered(c) /\ ~Settled(c)

----------------------------------------------------------------------------
(* What a transport fulfilment holds, as the claims speak of it *)

\* the responses of a fulfilment: the elements of an array, or the one value
Elements(v) == IF IsArray(v) THEN v[2] ELSE <<v>>

\* a single response object, or an array of response objects
OnlyResponses(v) == \A i \in 1..Len(Elements(v)) : Elements(v)[i][1] = "obj"

\* the positions of v at which a response bears id
Bearing(v, id) == {i \in 1..Len(Elements(v)) : Get(Elements(v)[i], "id") = id}

\* the first response of v that bears id (Bearing(v, id) is not empty)
FirstBearing(v, id) ==
    Elements(v)[CHOOSE i \in Bearing(v, id) : \A j \in Bearing(v, id) : i <= j]

InFlight == {c \in Calls : transports[c] = "inflight"}

\* the calls whose then-callback threw and whose catch-callback has not run yet
Catching == {c \in Calls : transports[c] = "catching"}

----------------------------------------------------------------------------
\* the fulfilments made of responses that all bear the id of call c: one
\* response, or an array of them
ResponsesBearing(c) ==
    {v \in Fulfilments :
        /\ OnlyResponses(v)
        /\ Len(Elements(v)) > 0
        /\ \A i \in 1..Len(Elements(v)) : Get(Elements(v)[i], "id") = IdOf(c)}

\* the client's state st differs from the present one at most in that the
\* entry under the id of call c is gone, and no TypeError was thrown
NoOpFor(c, st) ==
    /\ ~st.threw
    /\ st.promises = promises
    /\ st.nextId = nextId
    /\ st.pending = MapDelete(pendingRequests, IdOf(c))

(* C1: the continuation of a call is completed at most once: once its promise
   is fulfilled or rejected, no step changes its state or its value; and the
   terminal path that comes second is a no-op because the correlator looks the
   entry up before it acts: a response bearing the id of a completed call,
   through whichever transport invocation it comes, and the failure of the
   call's own transport invocation complete no continuation, throw nothing and
   leave the registry and the id counter as they are.  The one entry that
   outlives its call's completion is that of a call whose transport threw
   (C8); a later response bearing its id removes that entry and changes
   nothing else. *)
C1_CompletedAtMostOnce ==
    /\ [][\A c \in Calls : Settled(c) => promises'[c] = promises[c]]_vars
    /\ [](\A c \in Calls : Settled(c) =>
            /\ Registered(c) => transports[c] = "threw"
            /\ \A d \in InFlight : \A v \in ResponsesBearing(c) :
                   NoOpFor(c, AfterFulfil(d, v))
            /\ \A e \in TransportErrors :
                   c \in InFlight => AfterReject(c, e) = Client)

\* Call c was fulfilled by a response that came through another invocation, and
\* its own transport invocation failed afterwards, or it was rejected when its
\* transport threw and its id is no longer in the registry, which only a later
\* response bearing its id brings about.
C1_Witness ==
    \E c \in Calls :
        \/ promises[c].state = "fulfilled" /\ transports[c] = "rejected"
        \/ transports[c] = "threw" /\ ~Registered(c)

----------------------------------------------------------------------------
(* C2: when a transport invocation fulfils with a SuccessResponse, alone or as
   an element of an array of responses, and the response is the first of the
   fulfilment to bear the id of a call that awaits its response, that call is
   fulfilled with exactly the result field of the response. *)
C2_SuccessFulfilsWithResult ==
    \A c \in InFlight : \A v \in Fulfilments : \A j \in Calls :
        (/\ OnlyResponses(v)
         /\ Awaiting(j)
         /\ Bearing(v, IdOf(j)) # {}
         /\ isJSONRPCSuccessResponse(FirstBearing(v, IdOf(j))))
        => AfterFulfil(c, v).promises[j] =
               [state |-> "fulfilled", value |-> FirstBearing(v, IdOf(j))[2].result]

\* Two calls were fulfilled while the transport invocation of one of them is
\* still in flight: a response reached its call through another call's
\* invocation, and with two calls both came as the elements of one array.
C2_Witness ==
    \E c, j \in Calls :
        /\ c # j
        /\ promises[c] = [state |-> "fulfilled", value |-> Str("r2")]
        /\ promises[j] = [state |-> "fulfilled", value |-> Str("r2")]
        /\ transports[c] = "fulfilled"
        /\ transports[j] = "inflight"

----------------------------------------------------------------------------
(* C3: when a transport invocation fulfils with an ErrorResponse that is the
   first of the fulfilment to bear the id of a call that awaits its response,
   that call is rejected with an error whose message, code and data are those
   of the response's error object (data undefined when the object has none). *)
C3_ErrorRejectsWithErrorObject ==
    \A c \in InFlight : \A v \in Fulfilments : \A j \in Calls :
        (/\ OnlyResponses(v)
         /\ Awaiting(j)
         /\ Bearing(v, IdOf(j)) # {}
         /\ isJSONRPCErrorResponse(FirstBearing(v, IdOf(j))))
        => LET after == AfterFulfil(c, v).promises[j]
               error == FirstBearing(v, IdOf(j))[2].error
           IN  /\ after.state = "rejected"
               /\ Get(after.value, "message") = Get(error, "message")
               /\ Get(after.value, "code") = Get(error, "code")
               /\ Get(after.value, "data") = Get(error, "data")

\* One call was rejected with the error that carries data, another with the
\* error that carries none.
C3_Witness ==
    \E c, j \in Calls :
        /\ promises[c].state = "rejected"
        /\ Get(promises[c].value, "code") = Num(-32001)
        /\ Get(promises[c].value, "message") = Str("custom")
        /\ Get(promises[c].value, "data") = Str("d")
        /\ promises[j].state = "rejected"
        /\ Get(promises[j].value, "code") = Num(-32602)
        /\ Get(promises[j].value, "data") = Undef

----------------------------------------------------------------------------
(* C4: when the transport invocation of a call fails while the call awaits its
   response, by rejecting later or by throwing when it is invoked, the call is
   rejected with the failure value itself, and every other call keeps its
   promise and its registry entry as they were. *)
C4_TransportFailureRejectsVerbatim ==
    [][/\ \A c \in Calls : \A e \in TransportErrors :
              (Awaiting(c) /\ TransportRejects(c, e))
              => /\ promises'[c] = [state |-> "rejected", value |-> e]
                 /\ \A j \in Calls \ {c} :
                        /\ promises'[j] = promises[j]
                        /\ Registered(j) => IdOf(j) \in DOMAIN pendingRequests'
       /\ \A m \in Methods : \A p \in ParamsValues : \A e \in TransportErrors :
              CallTransportThrows(m, p, e)
              => /\ promises'[Len(promises')] = [state |-> "rejected", value |-> e]
                 /\ \A j \in Calls :
                        /\ promises'[j] = promises[j]
                        /\ Registered(j) => IdOf(j) \in DOMAIN pendingRequests'
      ]_vars

\* The transport invocation of one call rejected and that of another threw, and
\* each of the two calls is rejected with its own failure value.
C4_Witness ==
    \E c, j \in Calls :
        /\ transports[c] = "rejected"
        /\ promises[c].state = "rejected"
        /\ promises[c].value \in TransportErrors
        /\ transports[j] = "threw"
        /\ promises[j].state = "rejected"
        /\ promises[j].value \in TransportErrors
        /\ promises[j].value # promises[c].value

----------------------------------------------------------------------------
(* C5: routing responses none of whose ids is a key of the pending registry (an
   unknown id, the string "1" beside the number 1, null, no id at all, the id of
   a call that was completed before) leaves the registry, the id counter and
   the promise of every call as they were. *)
Unmatched(v) ==
    \A i \in 1..Len(Elements(v)) :
        /\ ~ThrowsOnRead(Elements(v)[i])
        /\ Get(Elements(v)[i], "id") \notin DOMAIN pendingRequests

C5_UnmatchedResponseChangesNothing ==
    \A c \in InFlight : \A v \in Fulfilments :
        Unmatched(v) =>
            /\ AfterFulfil(c, v).pending = pendingRequests
            /\ AfterFulfil(c, v).nextId = nextId
            /\ AfterFulfil(c, v).promises = promises

\* The transport invocation of a call has fulfilled and yet every call made,
\* that one included, still awaits its response, while a response bearing "1"
\* or null or the id of a call not yet made would be unmatched now.
C5_Witness ==
    /\ Len(promises) >= 2
    /\ \A j \in Calls : Awaiting(j)
    /\ \E c \in Calls : transports[c] = "fulfilled"
    /\ \E c \in InFlight : \E v \in WellFormedResponses : Unmatched(v)

----------------------------------------------------------------------------
(* C6: the n-th call of a client is sent with id n: the ids are 1, 2, 3, ... in
   call order, so they increase strictly and no two calls share one, whether
   or not earlier calls have been completed and removed from the registry. *)
C6_IdsCountCalls ==
    /\ \A n \in 1..Len(sent) : Get(sent[n], "id") = Num(n)
    /\ \A n, k \in 1..Len(sent) : n < k => Get(sent[n], "id")[2] < Get(sent[k], "id")[2]
    /\ nextId = Len(sent) + 1

\* Two calls were made; the first is completed and its entry removed from the
\* registry, the last is still in flight.
C6_Witness ==
    /\ Len(sent) >= 2
    /\ Settled(1)
    /\ ~Registered(1)
    /\ transports[Len(sent)] = "inflight"
    /\ transports[1] # "inflight"

----------------------------------------------------------------------------
(* C7: with several calls in flight and responses arriving in any order and
   through any call's transport invocation, a fulfilment completes a call only
   with the payload of a response that bears the call's own id: it is
   fulfilled with the result of such a SuccessResponse or rejected with the
   error of such an ErrorResponse.  The one completion that is no response's
   payload is the TypeError with which the catch-callback rejects the call
   whose then-callback threw (C10), and it changes no other call. *)
C7_CompletedByOwnIdOnly ==
    /\ \A c \in Catching : \A j \in Calls :
           AfterThrow(c).promises[j] # promises[j]
           => /\ j = c
              /\ AfterThrow(c).promises[j] = [state |-> "rejected", value |-> TypeErrorValue]
    /\ \A c \in InFlight : \A v \in Fulfilments : \A j \in Calls :
        LET after == AfterFulfil(c, v).promises[j] IN
        after # promises[j] =>
            \/ /\ after.state = "fulfilled"
               /\ \E i \in Bearing(v, IdOf(j)) :
                     /\ isJSONRPCSuccessResponse(Elements(v)[i])
                     /\ after.value = Elements(v)[i][2].result
            \/ /\ after.state = "rejected"
               /\ \E i \in Bearing(v, IdOf(j)) :
                     /\ isJSONRPCErrorResponse(Elements(v)[i])
                     /\ Get(after.value, "message") = Get(Elements(v)[i][2].error, "message")
                     /\ Get(after.value, "code") = Get(Elements(v)[i][2].error, "code")
                     /\ Get(after.value, "data") = Get(Elements(v)[i][2].error, "data")

\* The response of one call came back through the transport invocation of
\* another: the call is fulfilled while its own invocation is in flight, and
\* the call whose invocation carried the response still awaits its own.
C7_Witness ==
    \E c, j \in Calls :
        /\ c # j
        /\ transports[c] = "fulfilled"
        /\ Awaiting(c)
        /\ transports[j] = "inflight"
        /\ promises[j] = [state |-> "fulfilled", value |-> Str("r1")]

----------------------------------------------------------------------------
(* C8: in every reachable state a call that has been fulfilled or rejected, by
   a matching response, by its transport invocation rejecting or by its
   transport throwing, has no entry left in the pending registry. *)
C8_SettledHasNoEntry ==
    \A c \in Calls : Settled(c) => IdOf(c) \notin DOMAIN pendingRequests

----------------------------------------------------------------------------
(* C9: an entry leaves the pending registry only in the step in which its
   call is fulfilled or rejected, and in every reachable state every call made
   and not yet fulfilled or rejected still has its entry. *)
C9_RemovedOnlyWhenCompleted ==
    [][/\ \A c \in Calls :
              (Registered(c) /\ IdOf(c) \notin DOMAIN pendingRequests')
              => (~Settled(c) /\ promises'[c].state # "pending")
       /\ \A c \in 1..Len(promises') :
              promises'[c].state = "pending" => Get(sent'[c], "id") \in DOMAIN pendingRequests'
      ]_vars

----------------------------------------------------------------------------
(* C10: a call that awaits its response stops doing so only when a response
   bearing its id is routed or its transport invocation fails: a transport
   invocation that fulfils with anything else leaves it as it was, both when
   its then-callback runs and when, the then-callback having thrown, the
   catch-callback runs. *)
C10_OnlyMatchOrFailureCompletes ==
    /\ \A c \in InFlight : \A v \in Fulfilments : \A j \in Calls :
           (Awaiting(j) /\ Bearing(v, IdOf(j)) = {})
           => /\ AfterFulfil(c, v).promises[j] = promises[j]
              /\ IdOf(j) \in DOMAIN AfterFulfil(c, v).pending
    /\ \A c \in Catching : \A j \in Calls :
           Awaiting(j)
           => /\ AfterThrow(c).promises[j] = promises[j]
              /\ IdOf(j) \in DOMAIN AfterThrow(c).pending

----------------------------------------------------------------------------
(* C11: notify never propagates a transport failure to its caller: every
   notify invocation returns normally, whether its transport invocation
   rejects or the transport throws when invoked, and every such failure has
   been passed to console.warn. *)
C11_NotifyNeverPropagates ==
    \A n \in 1..Len(notifications) :
        /\ notifications[n].outcome = "returned"
        /\ notifications[n].transport \in {"rejected", "threw"}
           => \E i \in 1..Len(console) :
                  console[i] = <<NotifyWarning, notifications[n].failure>>

----------------------------------------------------------------------------
(* Vocabulary of the claims about the dispatcher *)

\* the dispatch has completed
Done == pc = "done"

\* what the dispatch completed with
Result == outcome.value

\* the elements of the decoded payload
ItemsIn == Items(parsedPayload)

IsRequestOrNotification(v) == isJSONRPCRequest(v) \/ isJSONRPCNotification(v)

\* the payload was decoded (a text that failed to parse leaves parsedPayload
\* unassigned)
Decoded == pc # "idle" /\ parsedPayload # Undef

\* the decoded payload is an array of Requests and Notifications, not empty
ValidBatch ==
    /\ Decoded
    /\ IsArray(parsedPayload)
    /\ Len(ItemsIn) > 0
    /\ \A i \in 1..Len(ItemsIn) : IsRequestOrNotification(ItemsIn[i])

\* the ErrorResponse with id null that carries the standard error code, message
ErrorResponseNullId(code, message) ==
    Obj([jsonrpc |-> Str("2.0"), id |-> Null,
         error |-> Obj([code |-> Num(code), message |-> Str(message)])])

\* a Response, a non-empty array of Responses, or null
IsDispatchResult(v) ==
    \/ v = Null
    \/ isJSONRPCResponse(v)
    \/ /\ IsArray(v)
       /\ Len(v[2]) > 0
       /\ \A i \in 1..Len(v[2]) : isJSONRPCResponse(v[2][i])

NonNull(r) == r # Null

\* the method of element i is a key of the handler map
MethodRegistered(i) == Get(ItemsIn[i], "method")[2] \in RegisteredMethods

----------------------------------------------------------------------------
(* C12: handleJsonRpcRequest is total: for every payload (text, decoded value,
   batch) and every handler behaviour its promise never rejects, and when the
   dispatch has completed it is fulfilled with a single Response, a non-empty
   array of Responses, or null. *)
C12_DispatchIsTotal ==
    /\ outcome.state # "rejected"
    /\ Done => (outcome.state = "fulfilled" /\ IsDispatchResult(Result))

----------------------------------------------------------------------------
(* C13: a text that fails to parse as JSON is answered with exactly the
   ErrorResponse {id null, error {code -32700, message "Parse error"}}, and no
   handler is invoked. *)
UnparsableTexts == {TextInvalidJson, TextTruncated, TextEmpty}

C13_ParseFailureYieldsParseError ==
    (pc # "idle" /\ rawJsonPayload \in UnparsableTexts)
    => /\ Done
       /\ outcome = [state |-> "fulfilled",
                     value |-> ErrorResponseNullId(-32700, "Parse error")]
       /\ invocations = <<>>

\* The text of a request cut short was dispatched and answered with the parse
\* error, which the logger was told of.
C13_Witness ==
    /\ Done
    /\ rawJsonPayload = TextTruncated
    /\ Get(Get(Result, "error"), "code") = Num(-32700)
    /\ Get(Result, "id") = Null
    /\ Len(logger) = 1
    /\ logger[1][1] = "error"

----------------------------------------------------------------------------
(* C14: a decoded payload that is neither a Request nor a Notification, or an
   array with at least one element that is neither, is answered with the single
   ErrorResponse {id null, code -32600} for the whole payload (not an array,
   not one error per element), and no handler is invoked for any element, the
   well-formed ones before the bad element included. *)
InvalidPayload(payload) ==
    IF IsArray(payload)
    THEN \E i \in 1..Len(payload[2]) : ~IsRequestOrNotification(payload[2][i])
    ELSE ~IsRequestOrNotification(payload)

C14_InvalidPayloadRejectedWhole ==
    (Decoded /\ InvalidPayload(parsedPayload))
    => /\ Done
       /\ outcome = [state |-> "fulfilled",
                     value |-> ErrorResponseNullId(-32600, "Invalid Request")]
       /\ invocations = <<>>
       /\ results = <<>>

\* A batch whose first element is a request for the registered method and
\* whose second element is no Request and no Notification was answered with
\* the one error, and the handler of the first was not invoked.
C14_Witness ==
    /\ Done
    /\ IsArray(parsedPayload)
    /\ Len(ItemsIn) = 2
    /\ isJSONRPCRequest(ItemsIn[1])
    /\ MethodRegistered(1)
    /\ ~IsRequestOrNotification(ItemsIn[2])
    /\ Get(Get(Result, "error"), "code") = Num(-32600)
    /\ invocations = <<>>

----------------------------------------------------------------------------
(* C15: an empty array, given decoded or as the text "[]", is answered with
   the single ErrorResponse {id null, code -32600, message "Invalid Request"},
   not with null and not with an empty array. *)
C15_EmptyBatchIsInvalidRequest ==
    (Decoded /\ parsedPayload = Arr(<<>>))
    => /\ Done
       /\ Result = ErrorResponseNullId(-32600, "Invalid Request")
       /\ Result # Null
       /\ Result # Arr(<<>>)

\* The text "[]" was dispatched and answered with the error, and the logger
\* was told of the empty batch.
C15_Witness ==
    /\ Done
    /\ rawJsonPayload = TextEmptyBatch
    /\ parsedPayload = Arr(<<>>)
    /\ Get(Get(Result, "error"), "code") = Num(-32600)
    /\ logger = <<LogEntry("warn", "JSON-RPC empty batch request", <<>>)>>

----------------------------------------------------------------------------
\* the per-element results the batch loop has gone on from: all of them but the
\* one whose await the dispatch is suspended at
Collected == IF pc = "resuming" THEN SubSeq(results, 1, Len(results) - 1) ELSE results

(* C16: for a valid batch the responses collected are the non-null
   per-element results in input order of the elements the loop has gone on
   from, the result at position i being that of element i and carrying its id,
   and the output array of the completed dispatch is exactly the sequence of
   all of them: the response of element i precedes the response of element j
   whenever i < j. *)
C16_BatchOutputInInputOrder ==
    ValidBatch
    => /\ responses = SelectSeq(Collected, NonNull)
       /\ \A i \in 1..Len(results) :
              NonNull(results[i]) => Get(results[i], "id") = Get(ItemsIn[i], "id")
       /\ Done => /\ Len(results) = Len(ItemsIn)
                  /\ IsArray(Result) => Result[2] = SelectSeq(results, NonNull)

\* A batch of two requests with different ids was answered with an array of
\* two responses.
C16_Witness ==
    /\ Done
    /\ ValidBatch
    /\ Len(ItemsIn) = 2
    /\ Get(ItemsIn[1], "id") # Get(ItemsIn[2], "id")
    /\ IsArray(Result)
    /\ Len(Result[2]) = 2
    /\ Get(Result[2][1], "id") = Get(ItemsIn[1], "id")

----------------------------------------------------------------------------
(* C17: the result of a valid non-empty batch is null when no element
   produced a response and otherwise a non-empty array; it is never an empty
   array and never a bare Response, a one-element batch included. *)
C17_BatchResultNullOrNonEmptyArray ==
    (Done /\ ValidBatch)
    => /\ (\A i \in 1..Len(results) : results[i] = Null) => Result = Null
       /\ (\E i \in 1..Len(results) : results[i] # Null)
              => (IsArray(Result) /\ Len(Result[2]) > 0)
       /\ Result # Arr(<<>>)
       /\ Result[1] # "obj"

\* A one-element batch holding one notification for the registered method was
\* dispatched, its handler was invoked, and the result is null.
C17_Witness ==
    /\ Done
    /\ ValidBatch
    /\ Len(ItemsIn) = 1
    /\ isJSONRPCNotification(ItemsIn[1])
    /\ Len(invocations) = 1
    /\ Result = Null

----------------------------------------------------------------------------
(* C18: a Notification never produces a response: whether its method is
   unregistered, its handler succeeds or its handler fails, its per-element
   result is null, in strict and in non-strict mode, inside a batch or alone
   (where null is the result of the dispatch). *)
C18_NotificationYieldsNull ==
    /\ \A i \in 1..Len(results) :
           (Decoded /\ isJSONRPCNotification(ItemsIn[i])) => results[i] = Null
    /\ (Done /\ Decoded /\ isJSONRPCNotification(parsedPayload)) => Result = Null

\* In non-strict mode a batch of a notification and a request was dispatched;
\* the handler of the notification failed, which the logger was told of, and
\* the request after it was answered.
C18_Witness ==
    /\ Done
    /\ strictOption = Bool(FALSE)
    /\ ValidBatch
    /\ Len(ItemsIn) = 2
    /\ isJSONRPCNotification(ItemsIn[1])
    /\ results[1] = Null
    /\ \E k \in 1..Len(logger) :
           /\ logger[k][1] = "error"
           /\ logger[k][2] = Str("JSON-RPC notification method error in add:")
    /\ results[2] # Null

----------------------------------------------------------------------------
(* C19: when strictMethodHandling is true or omitted, a Request whose method
   is not a key of the handler map yields the ErrorResponse that carries the
   request's id and the error {code -32601, message "Method not found"}. *)
C19_StrictUnknownMethodNotFound ==
    (Decoded /\ strictOption \in {Bool(TRUE), Undef})
    => \A i \in 1..Len(results) :
           (isJSONRPCRequest(ItemsIn[i]) /\ ~MethodRegistered(i))
           => results[i] = Obj([jsonrpc |-> Str("2.0"), id |-> Get(ItemsIn[i], "id"),
                                error |-> Obj([code |-> Num(-32601),
                                               message |-> Str("Method not found")])])

----------------------------------------------------------------------------
(* C20: when strictMethodHandling is false, a Request whose method is not a
   key of the handler map yields null, no handler is invoked for it, and
   inside a batch it contributes no entry to the output array. *)
C20_NonStrictUnknownMethodDropped ==
    (Decoded /\ strictOption = Bool(FALSE))
    => /\ \A i \in 1..Len(results) :
              (isJSONRPCRequest(ItemsIn[i]) /\ ~MethodRegistered(i)) => results[i] = Null
       /\ (Done /\ ValidBatch)
              => Len(responses) <= Cardinality({i \in 1..Len(ItemsIn) :
                     isJSONRPCRequest(ItemsIn[i]) /\ MethodRegistered(i)})

----------------------------------------------------------------------------
(* Vocabulary of the claims about the handlers *)

\* the handler invocations of the dispatch
Invocations == 1..Len(invocations)

\* the element invocation k was made for
ItemOf(k) == ItemsIn[invocations[k].element]

\* the per-element result of the element invocation k was made for, once the
\* invocation has settled
ResultOf(k) == results[invocations[k].element]

\* invocation k is that of a registered handler for a Request
ForRegisteredRequest(k) ==
    isJSONRPCRequest(ItemOf(k)) /\ MethodRegistered(invocations[k].element)

----------------------------------------------------------------------------
(* C21: a Request whose method is registered and whose handler completes
   successfully, by returning or through an awaitable that fulfils, yields the
   SuccessResponse that carries the request's id and the handler's result; for
   a single request it is the result of the dispatch. *)
C21_SuccessCarriesIdAndResult ==
    \A k \in Invocations :
        (ForRegisteredRequest(k) /\ invocations[k].settled = "returned")
        => /\ ResultOf(k) = Obj([jsonrpc |-> Str("2.0"),
                                 id |-> Get(ItemOf(k), "id"),
                                 result |-> invocations[k].value])
           /\ isJSONRPCSuccessResponse(ResultOf(k))
           /\ (Done /\ ~IsArray(parsedPayload)) => Result = ResultOf(k)

\* The text of a request for the registered method was dispatched, the
\* handler returned 3, and the dispatch completed with the success response
\* of id 1 and result 3.
C21_Witness ==
    /\ Done
    /\ rawJsonPayload = TextRequest
    /\ Len(invocations) = 1
    /\ invocations[1].settled = "returned"
    /\ Result = Obj([jsonrpc |-> Str("2.0"), id |-> Num(1), result |-> Num(3)])

----------------------------------------------------------------------------
(* C22: when the handler of a Request fails, by throwing or through an
   awaitable that rejects, with a value that is structurally an ErrorObject
   (numeric code, string message), the per-element result is the ErrorResponse
   that carries the request's id and that same error object, code, message
   and data unchanged. *)
C22_ErrorObjectPassedVerbatim ==
    \A k \in Invocations :
        (/\ ForRegisteredRequest(k)
         /\ invocations[k].settled = "failed"
         /\ isJSONRPCError(invocations[k].value))
        => /\ ResultOf(k) = Obj([jsonrpc |-> Str("2.0"),
                                 id |-> Get(ItemOf(k), "id"),
                                 error |-> invocations[k].value])
           /\ (Done /\ ~IsArray(parsedPayload)) => Result = ResultOf(k)

\* The second request of a batch, with id "a", failed with the error object
\* {code -32001, message "custom", data "d"}, and the second entry of the
\* output carries the id and the three fields.
C22_Witness ==
    /\ Done
    /\ ValidBatch
    /\ IsArray(Result)
    /\ Len(Result[2]) = 2
    /\ Get(Result[2][2], "id") = Str("a")
    /\ Get(Result[2][2], "error") =
           Obj([code |-> Num(-32001), message |-> Str("custom"), data |-> Str("d")])
    /\ \E k \in Invocations :
           invocations[k].element = 2 /\ invocations[k].settled = "failed"

----------------------------------------------------------------------------
(* C23: when the handler of a Request fails with a value that is not
   structurally an ErrorObject (no numeric code, or no string message), the
   per-element result is the ErrorResponse with the request's id and exactly
   the error {code -32603, message "Internal error"}, without data: nothing of
   the failure value appears in it. *)
C23_OtherFailureIsInternalError ==
    \A k \in Invocations :
        (/\ ForRegisteredRequest(k)
         /\ invocations[k].settled = "failed"
         /\ ~isJSONRPCError(invocations[k].value))
        => ResultOf(k) = Obj([jsonrpc |-> Str("2.0"),
                              id |-> Get(ItemOf(k), "id"),
                              error |-> Obj([code |-> Num(-32603),
                                             message |-> Str("Internal error")])])

----------------------------------------------------------------------------
(* Vocabulary of the claims about the message model and factory *)

\* the predicates have been applied to a value
Evaluated == verdicts # <<>>

\* the predicate named p completed with true on the classified value
Holds(p) == verdicts[p] = Completed(TRUE)

\* the four kinds of message
FourKinds == {"isJSONRPCRequest", "isJSONRPCNotification", "isJSONRPCSuccessResponse",
              "isJSONRPCErrorResponse"}

\* the last factory call was of fn
Called(fn) == factoryCall.fn = fn

\* the optional key of the value built is there exactly when the argument was
\* supplied, and then holds the argument
KeyFollowsArgument(key, argument) ==
    /\ HasKey(factoryCall.value, key) <=> argument # Undef
    /\ HasKey(factoryCall.value, key) => Get(factoryCall.value, key) = argument

\* the fixed pair of each kind of standard error
StandardPairs ==
    [PARSE_ERROR |-> <<Num(-32700), Str("Parse error")>>,
     INVALID_REQUEST |-> <<Num(-32600), Str("Invalid Request")>>,
     METHOD_NOT_FOUND |-> <<Num(-32601), Str("Method not found")>>,
     INVALID_PARAMS |-> <<Num(-32602), Str("Invalid params")>>,
     INTERNAL_ERROR |-> <<Num(-32603), Str("Internal error")>>]

----------------------------------------------------------------------------
\* C24: every value handed to the predicates satisfies at most one of
\* isJSONRPCRequest, isJSONRPCNotification, isJSONRPCSuccessResponse and
\* isJSONRPCErrorResponse.
C24_AtMostOneKind ==
    Evaluated => Cardinality({p \in FourKinds : Holds(p)}) <= 1

----------------------------------------------------------------------------
\* C25: the value built by createJsonRpcRequest(method, id, params), for every
\* method string, every string or number id and params present or omitted,
\* satisfies isJSONRPCRequest and does not satisfy isJSONRPCNotification.
C25_BuiltRequestIsRequest ==
    Called("createJsonRpcRequest") =>
        /\ verdicts["isJSONRPCRequest"] = Completed(TRUE)
        /\ verdicts["isJSONRPCNotification"] = Completed(FALSE)

\* a request built with a string id and no params has been classified
C25_Witness ==
    /\ Called("createJsonRpcRequest")
    /\ factoryCall.args = <<Str("test_method"), Str("a"), Undef>>
    /\ classified = Obj([jsonrpc |-> Str("2.0"), method |-> Str("test_method"),
                         id |-> Str("a")])
    /\ Holds("isJSONRPCRequest")

----------------------------------------------------------------------------
\* C26: each of the six classification predicates completes with true or false
\* on every input and never throws: on null, numbers, strings, empty objects,
\* arrays, objects with fields of the wrong type, objects whose error is null or
\* not an object; and what it completes with is the value of the predicate.
C26_PredicatesAreTotal ==
    Evaluated =>
        /\ \A p \in DOMAIN verdicts : ~verdicts[p].threw /\ verdicts[p].value \in BOOLEAN
        /\ verdicts["isJSONRPCRequest"].value = isJSONRPCRequest(classified)
        /\ verdicts["isJSONRPCNotification"].value = isJSONRPCNotification(classified)
        /\ verdicts["isJSONRPCSuccessResponse"].value = isJSONRPCSuccessResponse(classified)
        /\ verdicts["isJSONRPCErrorResponse"].value = isJSONRPCErrorResponse(classified)
        /\ verdicts["isJSONRPCResponse"].value = isJSONRPCResponse(classified)
        /\ verdicts["isJSONRPCError"].value = isJSONRPCError(classified)

\* an object whose error is null, with every other key of an error response,
\* has been classified, and so has been null itself in another behaviour
C26_Witness ==
    /\ classified = Obj([jsonrpc |-> Str("2.0"), id |-> Num(1), error |-> Null])
    /\ \A p \in DOMAIN verdicts : verdicts[p] = Completed(FALSE)

----------------------------------------------------------------------------
\* C27: createJsonRpcRequest and createJsonRpcNotification emit a params key
\* exactly when params was supplied (omitted: no key; null: params null), and
\* createJsonRpcError and createStandardJsonRpcError emit a data key exactly
\* when data was supplied.
C27_OptionalKeyOnlyWhenSupplied ==
    /\ Called("createJsonRpcRequest") => KeyFollowsArgument("params", factoryCall.args[3])
    /\ Called("createJsonRpcNotification") =>
           KeyFollowsArgument("params", factoryCall.args[2])
    /\ Called("createJsonRpcError") => KeyFollowsArgument("data", factoryCall.args[3])
    /\ Called("createStandardJsonRpcError") =>
           KeyFollowsArgument("data", factoryCall.args[2])

\* a notification has been built with params null, and carries params: null
C27_Witness ==
    /\ Called("createJsonRpcNotification")
    /\ factoryCall.args[2] = Null
    /\ factoryCall.value = Obj([jsonrpc |-> Str("2.0"), method |-> factoryCall.args[1],
                                params |-> Null])

----------------------------------------------------------------------------
\* C28: createStandardJsonRpcError gives each of the five kinds its fixed code
\* and message (PARSE_ERROR -32700 "Parse error", INVALID_REQUEST -32600
\* "Invalid Request", METHOD_NOT_FOUND -32601 "Method not found", INVALID_PARAMS
\* -32602 "Invalid params", INTERNAL_ERROR -32603 "Internal error"), and the
\* error of createJsonRpcErrorResponse(id, e) is e.
C28_StandardErrorsAndRoundTrip ==
    /\ Called("createStandardJsonRpcError") =>
           <<Get(factoryCall.value, "code"), Get(factoryCall.value, "message")>>
               = StandardPairs[factoryCall.args[1]]
    /\ Called("createJsonRpcErrorResponse") =>
           Get(factoryCall.value, "error") = factoryCall.args[2]

\* an error response has been built from the standard error INVALID_PARAMS with
\* data, and its error is {code -32602, message "Invalid params", data}
C28_Witness ==
    /\ Called("createJsonRpcErrorResponse")
    /\ Get(factoryCall.value, "error")
           = Obj([code |-> Num(-32602), message |-> Str("Invalid params"),
                  data |-> Str("d")])

----------------------------------------------------------------------------
(* Vocabulary of the claims about the elements of a payload *)

\* the decoded payload is a Request, a Notification or a non-empty array of them
ValidPayload ==
    /\ Decoded
    /\ ~InvalidPayload(parsedPayload)
    /\ Len(ItemsIn) > 0

\* the positions of the Request elements, in input order
RECURSIVE RequestPositionsFrom(_)
RequestPositionsFrom(i) ==
    IF i > Len(ItemsIn) THEN <<>>
    ELSE (IF isJSONRPCRequest(ItemsIn[i]) THEN <<i>> ELSE <<>>)
         \o RequestPositionsFrom(i + 1)

RequestPositions == RequestPositionsFrom(1)

\* r has the shape of one Response for id: an object with jsonrpc "2.0", that
\* id, and either a result or an error, not both
IsResponseWithId(r, id) ==
    /\ r[1] = "obj"
    /\ Get(r, "jsonrpc") = Str("2.0")
    /\ HasKey(r, "id") /\ Get(r, "id") = id
    /\ HasKey(r, "result") # HasKey(r, "error")
    /\ DOMAIN r[2] \subseteq {"jsonrpc", "id", "result", "error"}

\* the output of the dispatch as a sequence: the elements of the array, none
\* for null
Output == IF IsArray(Result) THEN Result[2] ELSE IF Result = Null THEN <<>> ELSE <<Result>>

----------------------------------------------------------------------------
(* C29: in strict mode, for every structurally valid payload whose dispatch has
   completed, each Request element has exactly one per-element result, a
   Response that carries the element's id; the output of a valid batch has as
   many entries as the batch has Request elements, and its i-th entry carries
   the id of the i-th Request element, duplicate ids included. *)
C29_OneResponsePerRequest ==
    (strictMethodHandling /\ Done /\ ValidPayload)
    => /\ Len(results) = Len(ItemsIn)
       /\ \A i \in 1..Len(ItemsIn) :
              isJSONRPCRequest(ItemsIn[i])
              => IsResponseWithId(results[i], Get(ItemsIn[i], "id"))
       /\ Len(Output) = Len(RequestPositions)
       /\ \A n \in 1..Len(RequestPositions) :
              /\ Output[n] = results[RequestPositions[n]]
              /\ Get(Output[n], "id") = Get(ItemsIn[RequestPositions[n]], "id")
       /\ ~IsArray(parsedPayload) => ~IsArray(Result)

\* in strict mode a batch of two Requests with the same id, the second for an
\* unknown method, was answered with two Responses that carry that id
C29_Witness ==
    /\ strictMethodHandling
    /\ Done
    /\ ValidBatch
    /\ Len(ItemsIn) = 2
    /\ isJSONRPCRequest(ItemsIn[1]) /\ isJSONRPCRequest(ItemsIn[2])
    /\ Get(ItemsIn[1], "id") = Get(ItemsIn[2], "id")
    /\ Get(ItemsIn[2], "method") = Str("nope")
    /\ IsArray(Result)
    /\ Len(Result[2]) = 2
    /\ Get(Result[2][1], "id") = Get(ItemsIn[1], "id")
    /\ Get(Result[2][2], "id") = Get(ItemsIn[2], "id")

----------------------------------------------------------------------------
(* Vocabulary of the claim about the independence of the elements *)

\* the invocations made for element i
InvocationsOf(i) == {k \in Invocations : invocations[k].element = i}

\* what handleSingleRequest gives for item by itself, its handler call (if it
\* makes one) having settled as invocation inv did
AloneResult(item, inv) ==
    LET found == handleSingleRequestLookup(item) IN
    IF ~found.invoke THEN found.response
    ELSE IF inv.settled = "returned" THEN handleSingleRequestResult(item, inv.value).response
    ELSE handleSingleRequestCatch(item, inv.value).response

\* element i failed: its handler threw or rejected, or it is a Request for a
\* method that has no handler
ElementFailed(i) ==
    \/ \E k \in InvocationsOf(i) : invocations[k].settled = "failed"
    \/ isJSONRPCRequest(ItemsIn[i]) /\ ~handleSingleRequestLookup(ItemsIn[i]).invoke

----------------------------------------------------------------------------
(* C30: within a batch the outcome of an element does not depend on the
   outcome of any other element: when the dispatch of a valid batch has
   completed every element has been processed, a handler was invoked once for
   each element that has one and for no other, and the per-element result of
   every element is what the element gives by itself with the same handler
   outcome, whatever failed before or after it. *)
C30_ElementsAreIndependent ==
    (Done /\ ValidBatch)
    => /\ Len(results) = Len(ItemsIn)
       /\ \A i \in 1..Len(ItemsIn) :
              /\ Cardinality(InvocationsOf(i))
                     = IF Truthy(methodsGet(Get(ItemsIn[i], "method"))) THEN 1 ELSE 0
              /\ \A k \in InvocationsOf(i) :
                     /\ invocations[k].settled # "pending"
                     /\ invocations[k].params = Get(ItemsIn[i], "params")
                     /\ results[i] = AloneResult(ItemsIn[i], invocations[k])
              /\ InvocationsOf(i) = {}
                     => results[i] = handleSingleRequestLookup(ItemsIn[i]).response

\* the first element of a batch of two failed and the second, a Request whose
\* handler returned after that, has its SuccessResponse in the output
C30_Witness ==
    /\ Done
    /\ ValidBatch
    /\ Len(ItemsIn) = 2
    /\ ElementFailed(1)
    /\ isJSONRPCErrorResponse(results[1])
    /\ \E k \in InvocationsOf(2) : invocations[k].settled = "returned"
    /\ isJSONRPCSuccessResponse(results[2])
    /\ IsArray(Result) /\ Result[2] = <<results[1], results[2]>>

----------------------------------------------------------------------------
(* C31: within one batch the handlers are invoked one after the other in input
   order: the invocations are for elements of increasing position, every
   invocation but the last has settled, and while an invocation is pending the
   dispatch is suspended at its element, so that the handler of a later element
   is not invoked before it has settled. *)
C31_HandlersInvokedSequentially ==
    \A k \in Invocations :
        /\ k < Len(invocations)
           => /\ invocations[k].settled # "pending"
              /\ invocations[k].element < invocations[k + 1].element
        /\ invocations[k].settled = "pending"
           => /\ pc = "awaiting"
              /\ index = invocations[k].element
              /\ Len(results) = index - 1

\* in a batch of two, the handler of the first element has settled and that of
\* the second is invoked and has not
C31_Witness ==
    /\ ValidBatch
    /\ Len(invocations) = 2
    /\ invocations[1].element = 1 /\ invocations[1].settled # "pending"
    /\ invocations[2].element = 2 /\ invocations[2].settled = "pending"
    /\ pc = "awaiting"

----------------------------------------------------------------------------
(* C32: in a structurally valid, non-empty payload whose dispatch has
   completed, every element whose method is registered has had its handler
   invoked exactly once, with that element's params and the context of the
   dispatch, and no handler has been invoked for an element whose method is not
   registered. *)
C32_RegisteredInvokedOnceOthersNever ==
    (Done /\ ValidPayload)
    => \A i \in 1..Len(ItemsIn) :
           /\ Cardinality(InvocationsOf(i)) = IF MethodRegistered(i) THEN 1 ELSE 0
           /\ \A k \in InvocationsOf(i) :
                  /\ invocations[k].params = Get(ItemsIn[i], "params")
                  /\ invocations[k].context = context

----------------------------------------------------------------------------
(* C33: a handler is invoked only for a method name that is a key of the
   handler map, matched exactly, and the handler invoked is the one registered
   under that name; for any other name no handler is invoked. *)
C33_OnlyRegisteredNamesInvoke ==
    \A k \in Invocations :
        /\ Get(ItemOf(k), "method")[2] \in RegisteredMethods
        /\ invocations[k].handler = Fn(Get(ItemOf(k), "method")[2])

----------------------------------------------------------------------------
(* C34: every Response the dispatcher emits, the result of the dispatch or an
   element of the array it is, satisfies isJSONRPCResponse. *)
C34_EmittedResponsesAreResponses ==
    Done => \A n \in 1..Len(Output) : isJSONRPCResponse(Output[n])

----------------------------------------------------------------------------
\* v is an object with jsonrpc "2.0" and a string method whose id key is there
\* and holds neither a string nor a number
HasBadId(v) ==
    /\ v[1] = "obj"
    /\ {"jsonrpc", "method", "id"} \subseteq DOMAIN v[2]
    /\ v[2].jsonrpc = Str("2.0")
    /\ v[2].method[1] = "str"
    /\ v[2].id[1] \notin {"str", "num"}

(* C35: a payload object with jsonrpc "2.0" and a string method whose id key
   is present but holds neither a string nor a number (null, undefined, an
   object) is neither a Request nor a Notification; the dispatcher answers it
   with the ErrorResponse {id null, code -32600} and invokes no handler. *)
C35_BadIdIsInvalidRequest ==
    (Decoded /\ HasBadId(parsedPayload))
    => /\ ~isJSONRPCRequest(parsedPayload)
       /\ ~isJSONRPCNotification(parsedPayload)
       /\ Done
       /\ outcome = [state |-> "fulfilled",
                     value |-> ErrorResponseNullId(-32600, "Invalid Request")]
       /\ invocations = <<>>

\* a request for the registered method whose id key holds undefined was
\* answered with the one error, and so was, in another dispatch, the text of a
\* request whose id is null
C35_Witness ==
    /\ Done
    /\ \/ parsedPayload = Obj([jsonrpc |-> Str("2.0"), method |-> Str("add"),
                               id |-> Undef])
       \/ rawJsonPayload = TextNullId
    /\ Get(Get(Result, "error"), "code") = Num(-32600)
    /\ Get(Result, "id") = Null
    /\ invocations = <<>>

----------------------------------------------------------------------------
(* C37: notify leaves the pending registry, the id counter and the promise of
   every call as they are, when it is called and when its transport invocation
   settles: what a notification's transport invocation fulfils with is not
   routed and completes no pending call. *)
C37_NotifyLeavesRegistryAlone ==
    [][notifications' # notifications
       => UNCHANGED <<nextId, pendingRequests, promises>>]_vars

\* the transport invocation of a notification has fulfilled, with a response
\* that bears the id of a call (every fulfilment of a notification does, and
\* both calls were made), and both calls still await their responses
C37_Witness ==
    /\ Len(promises) = 2
    /\ \A c \in Calls : Awaiting(c) /\ IdOf(c) \in {Num(1), Num(2)}
    /\ \E n \in 1..Len(notifications) : notifications[n].transport = "fulfilled"
    /\ nextId = 3

----------------------------------------------------------------------------
\* the responses that bear the string "1" for their id
ResponsesBearingString1 == {v \in WellFormedResponses : v[2].id = Str("1")}

(* C38: response ids are matched against pending ids by value and type: a
   response whose id is the string "1" does not complete the pending call
   whose id is the number 1; it is dropped like any unmatched response, the
   registry, the id counter and every promise staying as they are. *)
C38_StringIdDoesNotMatchNumberId ==
    \A c \in InFlight : \A v \in ResponsesBearingString1 :
        /\ AfterFulfil(c, v).pending = pendingRequests
        /\ AfterFulfil(c, v).nextId = nextId
        /\ AfterFulfil(c, v).promises = promises

\* the call sent with the number 1 awaits its response, its entry under the
\* number 1, and a response bearing the string "1" that its transport
\* invocation fulfils with leaves it pending
C38_Witness ==
    /\ Len(promises) >= 1
    /\ sent[1][2].id = Num(1)
    /\ Num(1) \in DOMAIN pendingRequests
    /\ promises[1].state = "pending"
    /\ transports[1] = "inflight"
    /\ AfterFulfil(1, createJsonRpcSuccessResponse(Str("1"), Str("r1"))).promises[1].state
           = "pending"

----------------------------------------------------------------------------
\* how the handlers invoked by the dispatch sv settled, in order
OutcomesOf(sv) ==
    [k \in 1..Len(sv.invocations) |->
        <<sv.invocations[k].settled, sv.invocations[k].value>>]

\* the two calls were made with the same payload and context and their
\* handlers settled alike
SameDispatch ==
    /\ concurrent.rawJsonPayload = rawJsonPayload
    /\ concurrent.context = context
    /\ OutcomesOf(concurrent) = OutcomesOf(Server)

(* C36: the dispatcher keeps no state between the calls of
   handleJsonRpcRequest: two completed calls with the same payload and context
   on one server, whose handlers settled alike, have the same result, the same
   per-element results and the same handler invocations, whatever was
   dispatched before either of them and whatever the other was at when each
   began. *)
C36_DispatchesDoNotInterfere ==
    (Done /\ concurrent.pc = "done" /\ SameDispatch)
    => /\ outcome = concurrent.outcome
       /\ results = concurrent.results
       /\ invocations = concurrent.invocations

\* the batch was dispatched again after an earlier call had completed, and
\* beside it by the second call, and both were answered with the same array
C36_Witness ==
    /\ Done
    /\ dispatched = 1
    /\ concurrent.pc = "done"
    /\ SameDispatch
    /\ IsArray(parsedPayload)
    /\ IsArray(Result) /\ Len(Result[2]) = 2
    /\ Result = concurrent.outcome.value

----------------------------------------------------------------------------
\* the method of the request that dispatch sv was called with is a key of the
\* handler map
RequestedMethodRegistered(sv) == Get(sv.parsedPayload, "method")[2] \in RegisteredMethods

\* the promise p of a call is settled as the completed dispatch sv of its
\* request says: fulfilled with the handler's result, rejected with code -32601
\* for a method that is not registered, with the code of the ErrorObject the
\* handler failed with, with code -32603 for any other failure
SettledAsDispatched(p, sv) ==
    IF ~RequestedMethodRegistered(sv)
    THEN p.state = "rejected" /\ Get(p.value, "code") = Num(-32601)
    ELSE IF \E k \in 1..Len(sv.invocations) : sv.invocations[k].settled = "returned"
    THEN p = [state |-> "fulfilled", value |-> sv.invocations[1].value]
    ELSE IF \E k \in 1..Len(sv.invocations) : isJSONRPCError(sv.invocations[k].value)
    THEN p.state = "rejected" /\ Get(p.value, "code") = Get(sv.invocations[1].value, "code")
    ELSE p.state = "rejected" /\ Get(p.value, "code") = Num(-32603)

(* C39: end to end, with a strict-mode dispatcher for transport, every call
   starting its own dispatch and the dispatches of several calls going on side
   by side: when the transport invocation of a call returns the result of the
   completed dispatch of its request, the call settles: it fulfils with the
   handler's result, rejects with code -32601 when the method is not
   registered, with the handler's error code when it failed with an
   ErrorObject, with code -32603 otherwise; and its entry leaves the pending
   registry. *)
C39_CallSettlesAsDispatched ==
    [][\A c \in Calls :
          (transports[c] = "inflight" /\ transports'[c] = "fulfilled")
          => /\ SettledAsDispatched(promises'[c], dispatches[c])
             /\ IdOf(c) \notin DOMAIN pendingRequests']_vars

====
